---------------------------- MODULE Spec2Model ----------------------------
(***************************************************************************)
(* Anya any-angle search on a bitpacked grid (alexDS12/anya2d).            *)
(*                                                                         *)
(* Numbers.  Real-valued quantities (interval endpoints, costs) are        *)
(* fixed-point integers counted in units of EPSILON = 1e-7, so the value   *)
(* 1.0 is UNIT.  Rows, root coordinates and cell coordinates are plain     *)
(* integers, as in the source.  Words are 32 bits wide; a word is the set  *)
(* of its set bit positions 0..31 (bit 0 = leftmost cell).                 *)
(***************************************************************************)
EXTENDS Integers, Sequences, FiniteSets, TLC

(***************************************************************************)
(* constants.py                                                            *)
(***************************************************************************)
EPSILON == 1
UNIT == 10000000
PADDING_ == 2
BITS_PER_WORD == 32
LOG2_BITS_PER_WORD == 5
INDEX_MASK == 31

None == 0

(***************************************************************************)
(* Bounds of the model.                                                    *)
(***************************************************************************)
GridW == 3
GridH == 3
MaxBlocked == 2
MaxRuns == 2
\* Interval.covers alone is checked on endpoints counted in units of
\* EPSILON / Fine, on rows 0..MaxRow.
Fine == 2
MaxRow == 1
\* The grid alone is checked on every SmallW x SmallH map file, on a map one
\* cell narrower than a word (EdgeW) and on one wider than a word (WideW),
\* each followed by at most MaxSetCalls calls of set_cell_is_traversable.
SmallW == 2
SmallH == 2
EdgeW == 31
WideW == 33
MaxSetCalls == 2

(***************************************************************************)
(* Python integer and float primitives.                                    *)
(***************************************************************************)
Abs(v) == IF v < 0 THEN -v ELSE v
Min2(a, b) == IF a <= b THEN a ELSE b
Max2(a, b) == IF a >= b THEN a ELSE b
SetMin(S) == CHOOSE m \in S : \A o \in S : m <= o
SetMax(S) == CHOOSE m \in S : \A o \in S : m >= o

\* a whole number as a fixed-point value
Fx(n) == n * UNIT

\* int(v) of a fixed-point value: truncation toward zero
ToInt(v) == IF v >= 0 THEN v \div UNIT ELSE -((-v) \div UNIT)

\* x >> k on a Python int: floor division by 2^k (the sign is kept).  Every
\* operand here is far smaller than 2^30, so a shift by 30 or more leaves
\* only the sign: 0 or -1.
ShiftRight(n, k) == IF k >= 30 THEN (IF n < 0 THEN -1 ELSE 0) ELSE n \div (2 ^ k)

\* a / b on floats, rounded to the nearest unit
FDiv(a, b) ==
    LET q == (2 * Abs(a) + b) \div (2 * b) IN IF a < 0 THEN -q ELSE q

(***************************************************************************)
(* BitpackedGrid (grid.py).  A bitmap is a function from word index to the *)
(* set of set bits.                                                        *)
(***************************************************************************)
\* elts[i] with the array's index rule: a negative index counts from the end
WordAt(elts, i) ==
    LET n == Len(elts) IN
    IF i >= 0 /\ i < n THEN elts[i + 1]
    ELSE IF i < 0 /\ i >= -n THEN elts[n + i + 1]
    ELSE {}

init(width, height) ==
    LET words == ShiftRight(width, LOG2_BITS_PER_WORD) + 1
        mw == words * (2 ^ LOG2_BITS_PER_WORD)
        mh == height + 2 * PADDING_
        size == ShiftRight(mh * mw, LOG2_BITS_PER_WORD)
        zeros == [i \in 1..size |-> {}]
    IN [map_height_original |-> height,
        map_width_original |-> width,
        map_width_in_words |-> words,
        map_width |-> mw,
        map_height |-> mh,
        map_size |-> size,
        map_cells |-> zeros,
        visible |-> zeros,
        corner |-> zeros,
        double_corner |-> zeros]

\* get_map_id of a grid stored without padding
get_map_id_unpadded(g, x, y) == y * g.map_width + x

get_map_id(g, x, y) == (y + PADDING_) * g.map_width + (x + PADDING_)

get_bit_value(g, x, y, elts) ==
    LET map_id == get_map_id(g, x, y)
        word_index == ShiftRight(map_id, LOG2_BITS_PER_WORD)
    IN (map_id % BITS_PER_WORD) \in WordAt(elts, word_index)

set_bit_value(g, x, y, value, elts) ==
    LET map_id == get_map_id(g, x, y)
        word_index == ShiftRight(map_id, LOG2_BITS_PER_WORD)
        n == Len(elts)
        at == IF word_index >= 0 THEN word_index + 1 ELSE n + word_index + 1
        bit == map_id % BITS_PER_WORD
    IN IF at \in 1..n
       THEN [elts EXCEPT ![at] = IF value THEN @ \cup {bit} ELSE @ \ {bit}]
       ELSE elts

get_cell_is_traversable(g, cx, cy) == get_bit_value(g, cx, cy, g.map_cells)
get_point_is_visible(g, x, y) == get_bit_value(g, x, y, g.visible)
get_point_is_corner(g, x, y) == get_bit_value(g, x, y, g.corner)
\* get_point_is_double_corner that knows no double corner
get_point_is_double_corner_never(g, x, y) == FALSE

get_point_is_double_corner(g, x, y) == get_bit_value(g, x, y, g.double_corner)

update_point(g, px, py) ==
    LET cell_nw == get_cell_is_traversable(g, px - 1, py - 1)
        cell_ne == get_cell_is_traversable(g, px, py - 1)
        cell_sw == get_cell_is_traversable(g, px - 1, py)
        cell_se == get_cell_is_traversable(g, px, py)
        corner == (((~cell_nw \/ ~cell_se) /\ cell_sw /\ cell_ne)
                   \/ ((~cell_ne \/ ~cell_sw) /\ cell_nw /\ cell_se))
        dc1 == (~cell_nw /\ ~cell_se) /\ cell_sw /\ cell_ne
        dc2 == (~cell_sw /\ ~cell_ne) /\ cell_nw /\ cell_se
        double_corner == (dc1 /= dc2)
        visible == cell_nw \/ cell_ne \/ cell_sw \/ cell_se
    IN [g EXCEPT !.corner = set_bit_value(g, px, py, corner, @),
                 !.double_corner = set_bit_value(g, px, py, double_corner, @),
                 !.visible = set_bit_value(g, px, py, visible, @)]

\* set_cell_is_traversable that writes the cell and leaves the points alone
set_cell_is_traversable_cell_only(g, cx, cy, value) ==
    [g EXCEPT !.map_cells = set_bit_value(g, cx, cy, value, @)]

set_cell_is_traversable(g, cx, cy, value) ==
    LET g0 == [g EXCEPT !.map_cells = set_bit_value(g, cx, cy, value, @)]
        g1 == update_point(g0, cx, cy)
        g2 == update_point(g1, cx + 1, cy)
        g3 == update_point(g2, cx, cy + 1)
    IN update_point(g3, cx + 1, cy + 1)

\* the cells of a map file are set in row-major order; k counts the cells done
RECURSIVE load_cells(_, _, _)
load_cells(g, m, k) ==
    IF k >= g.map_width_original * g.map_height_original THEN g
    ELSE LET x == k % g.map_width_original
             y == k \div g.map_width_original
         IN load_cells(set_cell_is_traversable(g, x, y, m.lines[y + 1][x + 1] = "."),
                       m, k + 1)

load(m) == load_cells(init(m.width, m.height), m, 0)

\* get_number_trailing_zeros that counts up to the last set bit
get_number_trailing_zeros_last(value) ==
    IF value = {} THEN 32 ELSE SetMax(value)

\* bit scans of a 32-bit word; an empty word counts 32
get_number_trailing_zeros(value) ==
    IF value = {} THEN 32 ELSE SetMin(value)

get_number_leading_zeros(value) ==
    IF value = {} THEN 32 ELSE (BITS_PER_WORD - 1) - SetMax(value)

AllBits == 0..(BITS_PER_WORD - 1)
Complement(w) == AllBits \ w

RECURSIVE scan_cells_right_loop(_, _, _)
scan_cells_right_loop(g, t_index, obstacles) ==
    IF obstacles /= {} \/ t_index >= g.map_size
    THEN [t_index |-> t_index, stop_pos |-> get_number_trailing_zeros(obstacles)]
    ELSE scan_cells_right_loop(g, t_index + 1,
                               Complement(WordAt(g.map_cells, t_index + 1)))

scan_cells_right(g, x, y) ==
    LET tile_id == get_map_id(g, x, y)
        t_index == ShiftRight(tile_id, LOG2_BITS_PER_WORD)
        start_bit_index == tile_id % BITS_PER_WORD
        obstacles == {b \in Complement(WordAt(g.map_cells, t_index)) :
                         b >= start_bit_index}
        r == scan_cells_right_loop(g, t_index, obstacles)
        retval == (r.t_index - t_index) * BITS_PER_WORD
                  + (r.stop_pos - start_bit_index)
    IN x + retval

\* scan_cells_left that stays on the start cell
scan_cells_left_stay(g, x, y) == x

RECURSIVE scan_cells_left_loop(_, _, _)
scan_cells_left_loop(g, t_index, obstacles) ==
    IF obstacles /= {} \/ t_index < -g.map_size
    THEN [t_index |-> t_index, stop_pos |-> get_number_leading_zeros(obstacles)]
    ELSE scan_cells_left_loop(g, t_index - 1,
                              Complement(WordAt(g.map_cells, t_index - 1)))

scan_cells_left(g, x, y) ==
    LET tile_id == get_map_id(g, x, y)
        t_index == ShiftRight(tile_id, LOG2_BITS_PER_WORD)
        start_bit_index == tile_id % BITS_PER_WORD
        opposite_index == BITS_PER_WORD - (start_bit_index + 1)
        obstacles == {b \in Complement(WordAt(g.map_cells, t_index)) :
                         b <= start_bit_index}
        r == scan_cells_left_loop(g, t_index, obstacles)
        retval == (t_index - r.t_index) * BITS_PER_WORD
                  + (r.stop_pos - opposite_index)
    IN x - retval

smallest_step(g) == Min2(UNIT \div g.map_width, UNIT \div g.map_height)
smallest_step_div2(g) == smallest_step(g) \div 2

\* LatticeObstacles that sees no blocked cell
LatticeObstacles_none(g, t_index, ta_index) == {}

\* cells blocked on the row of word t_index and on the row above it
LatticeObstacles(g, t_index, ta_index) ==
    Complement(WordAt(g.map_cells, t_index))
        \cap Complement(WordAt(g.map_cells, ta_index))

RECURSIVE scan_right_loop(_, _, _, _, _)
scan_right_loop(g, t_index, ta_index, corners, obstacles) ==
    LET value == corners \cup obstacles IN
    IF value /= {} \/ t_index >= g.map_size
    THEN [t_index |-> t_index, stop_pos |-> get_number_trailing_zeros(value)]
    ELSE scan_right_loop(g, t_index + 1, ta_index + 1,
                         WordAt(g.corner, t_index + 1),
                         LatticeObstacles(g, t_index + 1, ta_index + 1))

\* x is a fixed-point value, the result a whole number
scan_right(g, x, row) ==
    LET left_of_x == ToInt(x + smallest_step_div2(g))
        tile_id == get_map_id(g, left_of_x, row)
        t_index == ShiftRight(tile_id, LOG2_BITS_PER_WORD)
        ta_index == t_index - g.map_width_in_words
        start_bit_index == tile_id % BITS_PER_WORD
        corners == {b \in WordAt(g.corner, t_index) : b > start_bit_index}
        obstacles == {b \in LatticeObstacles(g, t_index, ta_index) :
                         b >= start_bit_index}
        r == scan_right_loop(g, t_index, ta_index, corners, obstacles)
    IN left_of_x + ((r.t_index - t_index) * BITS_PER_WORD + r.stop_pos)
       - start_bit_index

RECURSIVE scan_left_loop(_, _, _, _, _)
scan_left_loop(g, t_index, ta_index, corners, obstacles) ==
    IF (corners \cup obstacles) /= {} \/ t_index < -g.map_size
    THEN [t_index |-> t_index,
          stop_pos |-> Min2(get_number_leading_zeros(corners) + 1,
                            get_number_leading_zeros(obstacles))]
    ELSE scan_left_loop(g, t_index - 1, ta_index - 1,
                        WordAt(g.corner, t_index - 1),
                        LatticeObstacles(g, t_index - 1, ta_index - 1))

scan_left(g, x, row) ==
    LET left_of_x == ToInt(x)
        tile_id == get_map_id(g, left_of_x, row)
        t_index == ShiftRight(tile_id, LOG2_BITS_PER_WORD)
        ta_index == t_index - g.map_width_in_words
        start_bit_index == tile_id % BITS_PER_WORD
        corners == {b \in WordAt(g.corner, t_index) : b < start_bit_index}
        obstacles == {b \in LatticeObstacles(g, t_index, ta_index) :
                         b < start_bit_index}
        r == scan_left_loop(g, t_index, ta_index, corners, obstacles)
    IN IF (x - Fx(left_of_x)) >= smallest_step(g)
          /\ get_point_is_corner(g, left_of_x, row)
       THEN left_of_x
       ELSE left_of_x - ((t_index - r.t_index) * BITS_PER_WORD + r.stop_pos)
            + (BITS_PER_WORD - start_bit_index)

(***************************************************************************)
(* Map files: the header's dimensions and the body's lines of characters.  *)
(***************************************************************************)
MapOf(w, h, blocked) ==
    [width |-> w, height |-> h,
     lines |-> [y \in 1..h |->
                  [x \in 1..w |-> IF <<x - 1, y - 1>> \in blocked THEN "@" ELSE "."]]]

(***************************************************************************)
(* Euclidean distance on fixed-point values.  Squares exceed 31 bits, so   *)
(* they are kept as three limbs in base BigBase: hi*B^2 + mid*B + lo.      *)
(***************************************************************************)
BigBase == 10000

BigNorm(hi, mid, lo) ==
    LET m == mid + (lo \div BigBase)
    IN <<hi + (m \div BigBase), m % BigBase, lo % BigBase>>

\* a^2 + b^2 for 0 <= a, b < BigBase^2
BigSumSq(a, b) ==
    LET a1 == a \div BigBase
        a0 == a % BigBase
        b1 == b \div BigBase
        b0 == b % BigBase
    IN BigNorm(a1 * a1 + b1 * b1, 2 * a1 * a0 + 2 * b1 * b0, a0 * a0 + b0 * b0)

BigLeq(p, q) ==
    \/ p[1] < q[1]
    \/ p[1] = q[1] /\ p[2] < q[2]
    \/ p[1] = q[1] /\ p[2] = q[2] /\ p[3] <= q[3]

\* the largest r in lo..hi with r^2 <= n
RECURSIVE BigSqrt(_, _, _)
BigSqrt(n, lo, hi) ==
    IF lo >= hi THEN lo
    ELSE LET mid == (lo + hi + 1) \div 2
         IN IF BigLeq(BigSumSq(mid, 0), n)
            THEN BigSqrt(n, mid, hi)
            ELSE BigSqrt(n, lo, mid - 1)

\* r^2 + r as limbs
BigSqPlus(r) ==
    LET q == BigSumSq(r, 0)
    IN BigNorm(q[1], q[2] + (r \div BigBase), q[3] + (r % BigBase))

\* ((x1 - x2) ** 2 + (y1 - y2) ** 2) ** 0.5, to the nearest unit;
\* dx is a fixed-point difference, dy a difference of rows
Hypot(dx, dy) ==
    LET a == Abs(dx)
        b == Abs(dy) * UNIT
        n == BigSumSq(a, b)
        r == BigSqrt(n, Max2(a, b), Min2(a + b, BigBase * BigBase - 1))
    IN IF BigLeq(BigSqPlus(r), n) /\ BigSqPlus(r) /= n THEN r + 1 ELSE r

\* EuclideanDistanceHeuristic.h: x1, x2 fixed-point, y1, y2 rows
h(x1, y1, x2, y2) == Hypot(x1 - x2, y1 - y2)

(***************************************************************************)
(* Interval (interval.py).  left and right are fixed-point values.         *)
(***************************************************************************)
\* whole numbers k for which the float k - 1e-7 (k + 1e-7) lies less than
\* 1e-7 from k, as IEEE-754 double arithmetic evaluates the setter's test
FloatSnapBelow == {1, 3, 4, 9, 10, 11, 12, 13, 14, 15, 16}
FloatSnapAbove == {2, 3, 8, 9, 10, 11, 12, 13, 14, 15}

\* abs(int(v + EPSILON) - v) < EPSILON, on values counted in units of
\* EPSILON / eps: a whole number n is the value n * eps * UNIT.  A value at
\* EPSILON itself from a whole number is decided by the float rounding.
IsDiscreteAt(v, eps) ==
    LET whole == eps * UNIT
        t == IF v + eps >= 0 THEN (v + eps) \div whole ELSE -((-(v + eps)) \div whole)
    IN IF Abs(t * whole - v) < eps THEN TRUE
       ELSE IF v = t * whole - eps THEN t \in FloatSnapBelow
       ELSE IF v = t * whole + eps THEN t \in FloatSnapAbove
       ELSE FALSE

\* int(v + EPSILON), taken when the value is discrete
SnapAt(v, eps) ==
    IF IsDiscreteAt(v, eps)
    THEN (IF v + eps >= 0 THEN (v + eps) \div (eps * UNIT)
          ELSE -((-(v + eps)) \div (eps * UNIT))) * (eps * UNIT)
    ELSE v

IsDiscrete(v) == IsDiscreteAt(v, EPSILON)

Snap(v) == SnapAt(v, EPSILON)

set_left(i, left) ==
    [i EXCEPT !.left = Snap(left), !.discrete_left = IsDiscrete(left)]

set_right(i, right) ==
    [i EXCEPT !.right = Snap(right), !.discrete_right = IsDiscrete(right)]

IntervalAt(left, right, row, eps) ==
    [left |-> SnapAt(left, eps), discrete_left |-> IsDiscreteAt(left, eps),
     right |-> SnapAt(right, eps), discrete_right |-> IsDiscreteAt(right, eps),
     row |-> row]

Interval(left, right, row) == IntervalAt(left, right, row, EPSILON)

\* __eq__, with DOUBLE_INEQUALITY_THRESHOLD worth eps units
interval_eq_at(i, j, eps) ==
    /\ Abs(i.left - j.left) < eps
    /\ Abs(i.right - j.right) < eps
    /\ i.row = j.row

interval_eq(i, j) == interval_eq_at(i, j, EPSILON)

\* covers that looks at the left endpoints and the rows alone
covers_left_only(self, i, eps) ==
    self.left <= i.left /\ self.row = i.row

\* covers, with DOUBLE_INEQUALITY_THRESHOLD worth eps units
covers(self, i, eps) ==
    \/ interval_eq_at(self, i, eps)
    \/ self.left <= i.left /\ self.right >= i.right /\ self.row = i.row

\* contains that finds no point in any interval
contains_never(self, p) == FALSE

\* contains(p) for the point (px, py), both counted in units of
\* EPSILON / eps like the endpoints; int(p.y) truncates toward zero
contains_at(self, px, py, eps) ==
    /\ (IF py >= 0 THEN py \div (eps * UNIT) ELSE -((-py) \div (eps * UNIT))) = self.row
    /\ (px + eps) >= self.left
    /\ px <= (self.right + eps)

\* p is a point with whole coordinates <<x, y>>
contains(self, p) == contains_at(self, Fx(p[1]), Fx(p[2]), EPSILON)

(***************************************************************************)
(* Node (node.py).  root is <<x, y>>; parent is the parent node (None for  *)
(* a node built without one), kept by its root and g.                      *)
(***************************************************************************)
NoParent == [root |-> <<0, 0>>, g |-> 0, none |-> TRUE]

ParentRef(n) == [root |-> n.root, g |-> n.g, none |-> FALSE]

\* Node without the distance term: g is copied from the parent.
Node_parent_g(interval, root, parent) ==
    [interval |-> interval,
     root |-> root,
     parent |-> parent,
     f |-> 0,
     g |-> IF parent.none THEN 0 ELSE parent.g]

Node(interval, root, parent) ==
    [interval |-> interval,
     root |-> root,
     parent |-> parent,
     f |-> 0,
     g |-> IF parent.none THEN 0
           ELSE parent.g + h(Fx(parent.root[1]), parent.root[2],
                             Fx(root[1]), root[2])]

\* from_points that puts the root in the middle of the interval
from_points_inside(interval, rootx, rooty, parent) ==
    Node(interval, <<ToInt((interval.left + interval.right) \div 2), interval.row>>,
         parent)

from_points(interval, rootx, rooty, parent) ==
    Node(interval, <<rootx, rooty>>, parent)

node_eq(n, m) ==
    /\ interval_eq(n.interval, m.interval)
    /\ n.root = m.root

(***************************************************************************)
(* IntervalProjection (interval_projection.py).  A projection is a record  *)
(* of the object's attributes; each project_* operator returns the object  *)
(* after the call.  err records a failed assert.                           *)
(***************************************************************************)
NewProjection ==
    [valid |-> FALSE, observable |-> FALSE,
     left |-> 0, right |-> 0, max_left |-> 0, max_right |-> 0, row |-> 0,
     sterile_check_row |-> 0, check_vis_row |-> 0, type_iii_check_row |-> 0,
     deadend |-> FALSE, intermediate |-> FALSE, err |-> FALSE]

\* project_cone once both checked cells are traversable: max_left and
\* max_right are the clipping scans, left and right the clipped endpoints
\* before the sanity checks.
project_cone_clip(self, ileft, iright, g, max_left, max_right, left, right) ==
    LET left1 == IF left >= max_right
                 THEN (IF get_cell_is_traversable(
                             g, ToInt(ileft - smallest_step_div2(g)),
                             self.check_vis_row)
                       THEN right ELSE max_left)
                 ELSE left
    IN [self EXCEPT
          !.valid = TRUE,
          !.max_left = max_left,
          !.left = left1,
          !.max_right = max_right,
          !.right = IF right <= max_left
                    THEN (IF get_cell_is_traversable(g, ToInt(iright),
                                                     self.check_vis_row)
                          THEN left1 ELSE max_right)
                    ELSE right,
          !.observable = left < right]

\* project_cone from the scans on: the endpoints are interpolated onto the
\* next row and clipped.
project_cone_scan(self, ileft, iright, irow, rootx, rooty, g, max_left, max_right) ==
    project_cone_clip(
        self, ileft, iright, g, max_left, max_right,
        Max2(ileft - FDiv(Fx(rootx) - ileft, Abs(irow - rooty)), max_left),
        Min2(iright + FDiv(iright - Fx(rootx), Abs(irow - rooty)), max_right))

\* project_cone after the rows are set (self carries them).
project_cone_rows(self, ileft, iright, irow, rootx, rooty, g) ==
    IF /\ get_cell_is_traversable(g, ToInt(ileft + smallest_step_div2(g)),
                                  self.check_vis_row)
       /\ get_cell_is_traversable(g, ToInt(iright - smallest_step_div2(g)),
                                  self.check_vis_row)
    THEN project_cone_scan(
             self, ileft, iright, irow, rootx, rooty, g,
             Fx(scan_cells_left(g, ToInt(ileft), self.check_vis_row) + 1),
             Fx(scan_cells_right(g, ToInt(iright), self.check_vis_row)))
    ELSE [self EXCEPT !.valid = FALSE]

project_cone(self, ileft, iright, irow, rootx, rooty, g) ==
    IF rooty < irow
    THEN project_cone_rows(
             [self EXCEPT !.check_vis_row = irow,
                          !.sterile_check_row = irow + 1,
                          !.row = irow + 1,
                          !.type_iii_check_row = irow - 1],
             ileft, iright, irow, rootx, rooty, g)
    ELSE IF ~(rooty > irow) THEN [self EXCEPT !.err = TRUE]
    ELSE project_cone_rows(
             [self EXCEPT !.sterile_check_row = irow - 2,
                          !.row = irow - 1,
                          !.check_vis_row = irow - 1,
                          !.type_iii_check_row = irow],
             ileft, iright, irow, rootx, rooty, g)

\* project_flat once left and right are set; beyond is the cell past the
\* far end of the projection.
project_flat_flags(self, rooty, g, left, right, beyond) ==
    [self EXCEPT
       !.left = left,
       !.right = right,
       !.deadend = ~(get_cell_is_traversable(g, beyond, rooty)
                     /\ get_cell_is_traversable(g, beyond, rooty - 1)),
       !.intermediate = (get_cell_is_traversable(g, ToInt(left), rooty)
                         /\ get_cell_is_traversable(g, ToInt(left), rooty - 1)),
       !.row = rooty,
       !.valid = (left /= right)]

project_flat_right(self, rooty, g, left, right) ==
    project_flat_flags(self, rooty, g, left, right, ToInt(right))

project_flat_left(self, rooty, g, left, right) ==
    project_flat_flags(self, rooty, g, left, right,
                       ToInt(left - smallest_step_div2(g)))

project_flat(self, ileft, iright, rootx, rooty, g) ==
    IF Fx(rootx) <= ileft
    THEN project_flat_right(self, rooty, g, iright, Fx(scan_right(g, iright, rooty)))
    ELSE project_flat_left(self, rooty, g, Fx(scan_left(g, ileft, rooty)), ileft)

\* The projection starts not observable and not valid.
project_unset(self) == [self EXCEPT !.observable = FALSE, !.valid = FALSE]

project(self, ileft, iright, irow, rootx, rooty, g) ==
    IF rooty = irow
    THEN project_flat(project_unset(self), ileft, iright, rootx, rooty, g)
    ELSE project_cone(project_unset(self), ileft, iright, irow, rootx, rooty, g)

project_node(self, node, g) ==
    project(self, node.interval.left, node.interval.right, node.interval.row,
            node.root[1], node.root[2], g)

\* project_f2c past the can_step test; going_down tells the side of the
\* turn, far_left and far_right are the ends of the projection.
project_f2c_turn(self, irow, going_down, far_left, far_right) ==
    [self EXCEPT
       !.row = IF going_down THEN irow + 1 ELSE irow - 1,
       !.sterile_check_row = IF going_down THEN irow + 1 ELSE irow - 2,
       !.check_vis_row = IF going_down THEN irow ELSE irow - 1,
       !.left = far_left, !.max_left = far_left,
       !.right = far_right, !.max_right = far_right,
       !.valid = TRUE, !.observable = FALSE]

\* The row scanned by project_f2c: the interval row when going down, the
\* row above it when going up.
f2c_vis_row(irow, going_down) == IF going_down THEN irow ELSE irow - 1

project_f2c_right(self, iright, irow, g, going_down) ==
    project_f2c_turn(self, irow, going_down, iright,
                     Fx(scan_cells_right(g, ToInt(iright),
                                         f2c_vis_row(irow, going_down))))

project_f2c_left(self, ileft, irow, g, going_down) ==
    project_f2c_turn(self, irow, going_down,
                     Fx(scan_cells_left(g, ToInt(ileft - UNIT),
                                        f2c_vis_row(irow, going_down)) + 1),
                     ileft)

project_f2c(self, ileft, iright, irow, rootx, rooty, g) ==
    IF Fx(rootx) <= ileft
    THEN IF ~(/\ get_cell_is_traversable(g, ToInt(iright), irow)
              /\ get_cell_is_traversable(g, ToInt(iright), irow - 1))
         THEN [self EXCEPT !.valid = FALSE, !.observable = FALSE]
         ELSE project_f2c_right(
                  self, iright, irow, g,
                  ~get_cell_is_traversable(g, ToInt(iright - UNIT), irow))
    ELSE IF ~(Fx(rootx) >= iright) THEN [self EXCEPT !.err = TRUE]
    ELSE IF ~(/\ get_cell_is_traversable(g, ToInt(ileft - UNIT), irow)
              /\ get_cell_is_traversable(g, ToInt(ileft - UNIT), irow - 1))
         THEN [self EXCEPT !.valid = FALSE, !.observable = FALSE]
         ELSE project_f2c_left(
                  self, ileft, irow, g,
                  ~get_cell_is_traversable(g, ToInt(ileft), irow))

project_f2c_node(self, node, g) ==
    IF node.interval.row /= node.root[2] THEN [self EXCEPT !.err = TRUE]
    ELSE project_f2c(self, node.interval.left, node.interval.right,
                     node.interval.row, node.root[1], node.root[2], g)

(***************************************************************************)
(* ExpansionPolicy (expansion_policy.py).  The successor list is a record  *)
(* [nodes, err]: the list retval and whether an assert failed on the way.  *)
(* g is the policy's grid and t its target root (_tx, _ty).                *)
(***************************************************************************)
prune == TRUE

NoSuccessors == [nodes |-> <<>>, err |-> FALSE]

\* retval after an assert has failed
Failed(retval) == [retval EXCEPT !.err = TRUE]

contains_target(t, left, right, row) ==
    /\ row = t[2]
    /\ Fx(t[1]) >= (left - EPSILON)
    /\ Fx(t[1]) <= (right + EPSILON)

sterile(g, left, right, row) ==
    ~(/\ get_cell_is_traversable(g, ToInt(left + EPSILON), row)
      /\ get_cell_is_traversable(g, ToInt(right - EPSILON), row))

\* above is the row of the cells that face the root across the interval
is_turning_point(g, discrete, x, row, cell_x, above, beyond_root) ==
    /\ discrete
    /\ get_point_is_corner(g, x, row)
    /\ (~get_cell_is_traversable(g, cell_x, above) \/ beyond_root)

intermediate_on(g, interval, rootx, above) ==
    LET tmp_left == ToInt(interval.left)
        tmp_right == ToInt(interval.right)
        rightroot == ShiftRight(tmp_right - rootx, 31) = 1
        leftroot == ShiftRight(rootx - tmp_left, 31) = 1
    IN ~(\/ (interval.discrete_left
             /\ is_turning_point(g, interval.discrete_left, tmp_left,
                                 interval.row, tmp_left - 1, above, leftroot))
         \/ (interval.discrete_right
             /\ is_turning_point(g, interval.discrete_right, tmp_right,
                                 interval.row, tmp_right, above, rightroot)))

intermediate(g, interval, rootx, rooty) ==
    intermediate_on(g, interval, rootx,
                    IF rooty < interval.row THEN interval.row - 1 ELSE interval.row)

\* The successor made by one pass of the loop of
\* split_interval_make_successors.
split_successor(succ_left, succ_right, max_left, irow, rootx, rooty, parent) ==
    [from_points(Interval(succ_left, succ_right, irow), rootx, rooty,
                 ParentRef(parent))
        EXCEPT !.interval =
            set_left(@, IF succ_left < max_left THEN max_left ELSE succ_left)]

\* The while loop of split_interval_make_successors: the list so far and the
\* last successor made.  split_loop is one pass from its first statement,
\* split_scanned the pass once succ_left is scanned, split_made the pass
\* after a successor is made, split_again the loop test.
RECURSIVE split_loop(_, _, _, _, _, _, _, _, _, _, _)
RECURSIVE split_scanned(_, _, _, _, _, _, _, _, _, _, _, _)
RECURSIVE split_made(_, _, _, _, _, _, _, _, _, _, _, _)
RECURSIVE split_again(_, _, _, _, _, _, _, _, _, _, _, _)

split_again(g, max_left, irow, rootx, rooty, sterile_check_row, parent, forced_succ, succ_left, succ_right, nodes, successor) ==
    IF succ_left /= succ_right /\ succ_left > max_left
    THEN split_loop(g, max_left, irow, rootx, rooty, sterile_check_row, parent,
                    forced_succ, succ_left, nodes, successor)
    ELSE [nodes |-> nodes, successor |-> successor]

split_made(g, max_left, irow, rootx, rooty, sterile_check_row, parent, forced_succ, succ_left, succ_right, nodes, made) ==
    split_again(g, max_left, irow, rootx, rooty, sterile_check_row, parent,
                forced_succ, succ_left, succ_right, Append(nodes, made), made)

split_scanned(g, max_left, irow, rootx, rooty, sterile_check_row, parent, forced_succ, succ_left, succ_right, nodes, successor) ==
    IF forced_succ \/ ~sterile(g, succ_left, succ_right, sterile_check_row)
    THEN split_made(g, max_left, irow, rootx, rooty, sterile_check_row, parent,
                    forced_succ, succ_left, succ_right, nodes,
                    split_successor(succ_left, succ_right, max_left, irow,
                                    rootx, rooty, parent))
    ELSE split_again(g, max_left, irow, rootx, rooty, sterile_check_row, parent,
                     forced_succ, succ_left, succ_right, nodes, successor)

split_loop(g, max_left, irow, rootx, rooty, sterile_check_row, parent, forced_succ, succ_right, nodes, successor) ==
    split_scanned(g, max_left, irow, rootx, rooty, sterile_check_row, parent,
                  forced_succ, Fx(scan_left(g, succ_right, irow)), succ_right,
                  nodes, successor)

RECURSIVE split_interval_make_successors(_, _, _, _, _, _, _, _, _, _)
RECURSIVE split_reprojected(_, _, _, _, _, _, _)
RECURSIVE split_looped(_, _, _, _, _, _, _, _)

\* The end of split_interval_make_successors, once the last successor has
\* been deleted and projected further (proj).
split_reprojected(g, t, rootx, rooty, parent, retval, proj) ==
    IF proj.err THEN Failed(retval)
    ELSE IF proj.valid /\ proj.observable
    THEN split_interval_make_successors(
             g, t, proj.left, proj.right, proj.row, rootx, rooty,
             proj.sterile_check_row, parent, retval)
    ELSE retval

\* split_interval_make_successors after its loop (looped).
split_looped(g, t, rootx, rooty, parent, retval, forced_succ, looped) ==
    IF /\ ~forced_succ
       /\ Len(looped.nodes) = Len(retval.nodes) + 1
       /\ intermediate(g, looped.successor.interval, rootx, rooty)
    THEN split_reprojected(
             g, t, rootx, rooty, parent,
             [retval EXCEPT !.nodes = SubSeq(looped.nodes, 1, Len(looped.nodes) - 1)],
             project_cone(NewProjection, looped.successor.interval.left,
                          looped.successor.interval.right,
                          looped.successor.interval.row, rootx, rooty, g))
    ELSE [retval EXCEPT !.nodes = looped.nodes]

\* split_interval_make_successors from the loop on.
split_forced(g, t, max_left, max_right, irow, rootx, rooty, sterile_check_row, parent, retval, forced_succ) ==
    split_looped(g, t, rootx, rooty, parent, retval, forced_succ,
                 split_loop(g, max_left, irow, rootx, rooty, sterile_check_row,
                            parent, forced_succ, max_right, retval.nodes, None))

split_interval_make_successors(g, t, max_left, max_right, irow, rootx, rooty, sterile_check_row, parent, retval) ==
    IF retval.err \/ max_left = max_right THEN retval
    ELSE split_forced(g, t, max_left, max_right, irow, rootx, rooty,
                      sterile_check_row, parent, retval,
                      ~prune \/ contains_target(t, max_left, max_right, irow))

\* A call of split_interval_make_successors under an if statement.
split_if(cond, g, t, max_left, max_right, irow, rootx, rooty, sterile_check_row, parent, retval) ==
    IF cond
    THEN split_interval_make_successors(g, t, max_left, max_right, irow, rootx,
                                        rooty, sterile_check_row, parent, retval)
    ELSE retval

generate_observable_cone__(g, t, projection, rootx, rooty, parent, retval) ==
    split_if(projection.valid /\ projection.observable, g, t,
             projection.left, projection.right, projection.row, rootx, rooty,
             projection.sterile_check_row, parent, retval)

cone_node_obs(g, t, node, retval, projection) ==
    IF node.root[2] = node.interval.row THEN Failed(retval)
    ELSE generate_observable_cone__(g, t, projection, node.root[1], node.root[2],
                                    node, retval)

\* The end of generate_observable_flat__: projection is the object after the
\* look further along the row, if there was one.
flat_append(g, t, projection, rootx, rooty, parent, retval) ==
    IF projection.err
    THEN [retval |-> Failed(retval), projection |-> projection]
    ELSE IF \/ ~projection.deadend
            \/ ~prune
            \/ contains_target(t, projection.left, projection.right,
                               projection.row)
    THEN [retval |-> [retval EXCEPT !.nodes =
                         Append(@, from_points(Interval(projection.left,
                                                        projection.right,
                                                        projection.row),
                                               rootx, rooty, ParentRef(parent)))],
          projection |-> projection]
    ELSE [retval |-> retval, projection |-> projection]

\* Returns the successor list and the projection object as the call leaves
\* them.
generate_observable_flat__(g, t, projection, rootx, rooty, parent, retval) ==
    IF retval.err THEN [retval |-> retval, projection |-> projection]
    ELSE IF projection.err \/ projection.row /= rooty
    THEN [retval |-> Failed(retval), projection |-> projection]
    ELSE IF ~projection.valid THEN [retval |-> retval, projection |-> projection]
    ELSE flat_append(
             g, t,
             IF /\ projection.intermediate
                /\ prune
                /\ ~contains_target(t, projection.left, projection.right,
                                    projection.row)
             THEN project(projection, projection.left, projection.right,
                          projection.row, rootx, rooty, g)
             ELSE projection,
             rootx, rooty, parent, retval)

\* A call of generate_observable_flat__ under an if statement; state is the
\* list and the projection object before it.
flat_if(cond, g, t, projection, rootx, rooty, parent, state) ==
    IF cond
    THEN generate_observable_flat__(g, t, projection, rootx, rooty, parent,
                                    state.retval)
    ELSE state

flat_node_obs(g, t, node, retval, projection) ==
    generate_observable_flat__(g, t, projection, node.root[1], node.root[2],
                               node, retval)

flat_node_nobs(g, t, node, retval, projection) ==
    IF projection.err THEN Failed(retval)
    ELSE split_if(projection.valid, g, t,
                  projection.left, projection.right, projection.row,
                  IF Fx(node.root[1]) <= node.interval.left
                  THEN ToInt(node.interval.right)
                  ELSE ToInt(node.interval.left),
                  node.interval.row, projection.sterile_check_row, node, retval)

\* irow - ((int(node.root.y) - irow) >> 31)
corner_row(node) ==
    node.interval.row - ShiftRight(node.root[2] - node.interval.row, 31)

\* cone_node_nobs, non-observable successors type (iii): the conical ones
\* around a corner at an end of the interval.
nobs_iii_cone(g, t, node, projection, retval) ==
    IF /\ Fx(node.root[1]) > node.interval.right
       /\ node.interval.discrete_right
       /\ get_point_is_corner(g, ToInt(node.interval.right), node.interval.row)
    THEN split_interval_make_successors(
             g, t, projection.max_left, node.interval.right, projection.row,
             ToInt(node.interval.right), node.interval.row,
             projection.sterile_check_row, node, retval)
    ELSE IF /\ Fx(node.root[1]) < node.interval.left
            /\ node.interval.discrete_left
            /\ get_point_is_corner(g, ToInt(node.interval.left), node.interval.row)
    THEN split_interval_make_successors(
             g, t, node.interval.left, projection.max_right, projection.row,
             ToInt(node.interval.left), node.interval.row,
             projection.sterile_check_row, node, retval)
    ELSE retval

\* type (iii), the flat successors to the left of the interval; the result
\* is the list with the projection object.
nobs_iii_left(g, t, node, projection, retval) ==
    flat_if(/\ node.interval.discrete_left
            /\ ~get_cell_is_traversable(g, ToInt(node.interval.left - UNIT),
                                        projection.type_iii_check_row)
            /\ get_cell_is_traversable(g, ToInt(node.interval.left - UNIT),
                                       projection.check_vis_row),
            g, t,
            project_flat(projection,
                         node.interval.left - smallest_step_div2(g),
                         node.interval.left,
                         ToInt(node.interval.left), node.interval.row, g),
            ToInt(node.interval.left), node.interval.row, node,
            [retval |-> retval, projection |-> projection])

\* type (iii), the flat successors to the right of the interval.
nobs_iii_right(g, t, node, state) ==
    flat_if(/\ node.interval.discrete_right
            /\ ~get_cell_is_traversable(g, ToInt(node.interval.right),
                                        state.projection.type_iii_check_row)
            /\ get_cell_is_traversable(g, ToInt(node.interval.right),
                                       state.projection.check_vis_row),
            g, t,
            project_flat(state.projection,
                         node.interval.right,
                         node.interval.right + smallest_step_div2(g),
                         ToInt(node.interval.right), node.interval.row, g),
            ToInt(node.interval.right), node.interval.row, node,
            state).retval

\* types (i) and (ii) to the left of the interval: the flat successors from
\* the interval row (with the object flatprj), then the conical ones.
nobs_left_flat(g, t, node, retval) ==
    flat_if(/\ node.interval.discrete_left
            /\ get_point_is_corner(g, ToInt(node.interval.left), node.interval.row)
            /\ ~get_cell_is_traversable(g, ToInt(node.interval.left - UNIT),
                                        corner_row(node)),
            g, t,
            project(NewProjection, node.interval.left - EPSILON,
                    node.interval.right, node.interval.row,
                    ToInt(node.interval.left), node.interval.row, g),
            ToInt(node.interval.left), node.interval.row, node,
            [retval |-> retval, projection |-> NewProjection])

nobs_left_cone(g, t, node, projection, state) ==
    [retval |->
        split_if(/\ node.interval.discrete_left
                 /\ get_point_is_corner(g, ToInt(node.interval.left),
                                        node.interval.row),
                 g, t, projection.max_left, projection.left, projection.row,
                 ToInt(node.interval.left), node.interval.row,
                 projection.sterile_check_row, node, state.retval),
     projection |-> state.projection]

\* types (i) and (ii) to the right of the interval.
nobs_right(g, t, node, projection, state) ==
    split_if(/\ node.interval.discrete_right
             /\ get_point_is_corner(g, ToInt(node.interval.right),
                                    node.interval.row),
             g, t, projection.right, projection.max_right, projection.row,
             ToInt(node.interval.right), node.interval.row,
             projection.sterile_check_row, node,
             flat_if(/\ node.interval.discrete_right
                     /\ get_point_is_corner(g, ToInt(node.interval.right),
                                            node.interval.row)
                     /\ ~get_cell_is_traversable(g, ToInt(node.interval.right),
                                                 corner_row(node)),
                     g, t,
                     project(state.projection, node.interval.left,
                             node.interval.right + EPSILON, node.interval.row,
                             ToInt(node.interval.left), node.interval.row, g),
                     ToInt(node.interval.right), node.interval.row, node,
                     state).retval)

cone_node_nobs(g, t, node, retval, projection) ==
    IF retval.err \/ ~projection.valid THEN retval
    ELSE IF ~projection.observable
    THEN nobs_iii_right(g, t, node,
             nobs_iii_left(g, t, node, projection,
                 nobs_iii_cone(g, t, node, projection, retval)))
    ELSE nobs_right(g, t, node, projection,
             nobs_left_cone(g, t, node, projection,
                 nobs_left_flat(g, t, node, retval)))

\* generate_successors for a flat node, after flat_node_obs (obs is the list
\* with the projection object).
flat_successors(g, t, node, obs) ==
    flat_node_nobs(g, t, node, obs.retval,
                   project_f2c_node(obs.projection, node, g))

\* generate_successors for a cone node, after project.
cone_successors(g, t, node, retval, projection) ==
    IF projection.err THEN Failed(retval)
    ELSE cone_node_nobs(g, t, node,
                        cone_node_obs(g, t, node, retval, projection),
                        projection)

generate_successors(g, t, node, retval) ==
    IF node.root[2] = node.interval.row
    THEN flat_successors(g, t, node,
                         flat_node_obs(g, t, node, retval,
                                       project_node(NewProjection, node, g)))
    ELSE cone_successors(g, t, node, retval,
                         project_node(NewProjection, node, g))

\* generate_start_successors without the flat successors right of the start
start_flat_right_none(g, t, node, state) == state.retval

\* generate_start_successors: the flat successors right of the start point
\* (fake root), after the ones on the left (state).
start_flat_right(g, t, node, state) ==
    generate_observable_flat__(
        g, t,
        project(state.projection, Fx(node.root[1]), Fx(node.root[1]),
                node.root[2], node.root[1] - 1, node.root[2], g),
        node.root[1], node.root[2], node, state.retval).retval

\* generate_start_successors: the conical successors on row irow, between
\* the scanned ends max_left and max_right.
start_cones(g, t, node, start_dc, max_left, max_right, irow, sterile_check_row, retval) ==
    split_if(max_right /= node.root[1], g, t,
             Fx(node.root[1]), Fx(max_right), irow,
             node.root[1], node.root[2], sterile_check_row, node,
             split_if(max_left /= node.root[1] /\ ~start_dc, g, t,
                      Fx(max_left), Fx(node.root[1]), irow,
                      node.root[1], node.root[2], sterile_check_row, node,
                      retval))

\* generate_start_successors past its assert and its early return.
start_successors(g, t, node, retval, start_dc) ==
    LET rootx == node.root[1]
        rooty == node.root[2]
        \* flat observable successors left of the start point (fake root)
        left == flat_if(~start_dc, g, t,
                        project(NewProjection, Fx(rootx), Fx(rootx), rooty,
                                rootx + 1, rooty, g),
                        rootx, rooty, node,
                        [retval |-> retval, projection |-> NewProjection])
        flat == start_flat_right(g, t, node, left)
        \* conical observable successors below the start point
        below == start_cones(g, t, node, start_dc,
                             scan_cells_left(g, rootx, rooty) + 1,
                             scan_cells_right(g, rootx, rooty),
                             rooty + 1, rooty + 1, flat)
        \* conical observable successors above the start point
    IN start_cones(g, t, node, start_dc,
                   scan_cells_left(g, rootx - 1, rooty - 1) + 1,
                   scan_cells_right(g, rootx, rooty - 1),
                   rooty - 1, rooty - 2, below)

generate_start_successors(g, t, node, retval) ==
    IF ~(/\ node.interval.left = node.interval.right
         /\ node.interval.left = Fx(node.root[1])
         /\ node.interval.row = node.root[2])
    THEN Failed(retval)
    ELSE IF /\ get_point_is_double_corner(g, node.root[1], node.root[2])
            /\ ~get_cell_is_traversable(g, node.root[1], node.root[2])
    THEN retval
    ELSE start_successors(g, t, node, retval,
                          get_point_is_double_corner(g, node.root[1], node.root[2]))

\* The successor list _successors after expand(vertex); start is _start.
expand(g, t, start, vertex) ==
    IF node_eq(vertex, start)
    THEN generate_start_successors(g, t, vertex, NoSuccessors)
    ELSE generate_successors(g, t, vertex, NoSuccessors)

\* step_cost that counts no distance
step_cost_none(cnode, csucc) == 0

step_cost(cnode, csucc) ==
    h(Fx(cnode.root[1]), cnode.root[2], Fx(csucc.root[1]), csucc.root[2])

\* validate_instance looking at the start cell alone
validate_instance_start_only(g, start, target) ==
    get_cell_is_traversable(g, start.root[1], start.root[2])

validate_instance(g, start, target) ==
    /\ get_cell_is_traversable(g, start.root[1], start.root[2])
    /\ get_cell_is_traversable(g, target.root[1], target.root[2])

hash(g, n) == n.root[2] * g.map_width + n.root[1]

(***************************************************************************)
(* Heuristic.get_value (heuristic.py): the target is mirrored through the  *)
(* interval row when it lies on the root's side of it.  A flat node has    *)
(* rise 0: both projections are nan and neither comparison holds.          *)
(***************************************************************************)
\* get_value returning half the distance from the root to the target
get_value_halved(n, t) ==
    h(Fx(n.root[1]), n.root[2], Fx(t.root[1]), t.root[2]) \div 2

\* get_value without the mirroring: the target row as it is given
get_value_targety_kept(n, t) == t.root[2]

\* The row of the target that get_value measures to
get_value_targety(n, t) ==
    LET irow == n.interval.row
        rooty == n.root[2]
    IN IF rooty < irow /\ t.root[2] < irow
       THEN t.root[2] + 2 * (irow - t.root[2])
       ELSE IF rooty > irow /\ t.root[2] > irow
       THEN t.root[2] - 2 * (t.root[2] - irow)
       ELSE t.root[2]

get_value(n, t) ==
    LET irow == n.interval.row
        ileft == n.interval.left
        iright == n.interval.right
        targetx == Fx(t.root[1])
        rootx == Fx(n.root[1])
        rooty == n.root[2]
        targety == get_value_targety(n, t)
        rise_root_to_irow == Abs(rooty - irow)
        rise_irow_to_target == Abs(irow - t.root[2])
        lrun == rootx - ileft
        rrun == iright - rootx
        isnan == rise_root_to_irow = 0
        left_proj == ileft - rise_irow_to_target * FDiv(lrun, rise_root_to_irow)
        right_proj == iright + rise_irow_to_target * FDiv(rrun, rise_root_to_irow)
    IN IF ~isnan /\ (targetx + EPSILON) < left_proj
       THEN h(rootx, rooty, ileft, irow) + h(ileft, irow, targetx, targety)
       ELSE IF ~isnan /\ targetx > (right_proj + EPSILON)
       THEN h(rootx, rooty, iright, irow) + h(iright, irow, targetx, targety)
       ELSE h(rootx, rooty, targetx, targety)

(***************************************************************************)
(* SearchNode / FibonacciHeapNode and FibonacciHeap.  Search nodes live in *)
(* a store (a sequence); a reference is an index into it and None is 0.    *)
(***************************************************************************)
reset(n, self) ==
    [n EXCEPT !.parent = None, !.child = None, !.right = self, !.left = self,
              !.key = 0, !.secondary_key = 0, !.degree = 0, !.mark = FALSE]

SearchNode(vertex, self) ==
    reset([data |-> vertex, parent |-> None, child |-> None, right |-> self,
           left |-> self, key |-> 0, secondary_key |-> 0, degree |-> 0,
           mark |-> FALSE, search_id |-> -1, closed |-> FALSE], self)

reset_(n, self, search_id_counter) ==
    reset([n EXCEPT !.parent = None, !.search_id = search_id_counter,
                    !.closed = FALSE], self)

FibonacciHeap == [min_node |-> None, n_nodes |-> 0]

\* clear that leaves the heap as it is
clear_nothing(heap) == heap

clear(heap) == [heap EXCEPT !.min_node = None, !.n_nodes = 0]

is_empty(heap) == heap.min_node = None

\* insert(node, key, secondary_key).  With a non-empty heap the node is
\* spliced into the root list and then node.less_than(self._min_node) is
\* called: less_than is a static method of four parameters, so the call
\* raises TypeError before n_nodes is counted.
insert(ns, heap, node, key, secondary_key) ==
    LET n1 == [ns EXCEPT ![node].secondary_key = secondary_key, ![node].key = key]
        m == heap.min_node
        n2 == [n1 EXCEPT ![node].left = m, ![node].right = n1[m].right]
        n3 == [n2 EXCEPT ![m].right = node]
        n4 == [n3 EXCEPT ![n3[node].right].left = node]
    IN IF m /= None
       THEN [nodes |-> n4, heap |-> heap, raised |-> TRUE]
       ELSE [nodes |-> n1,
             heap |-> [heap EXCEPT !.min_node = node, !.n_nodes = @ + 1],
             raised |-> FALSE]

\* The number of nodes on the root list that min_node is on.
RECURSIVE RootsFrom(_, _, _)
RootsFrom(ns, first, x) ==
    IF ns[x].right = first THEN 1 ELSE 1 + RootsFrom(ns, first, ns[x].right)

\* consolidate() compares two roots with less_than as soon as the root list
\* holds two nodes, which raises TypeError; a single root stays the minimum.
consolidate(ns, heap) ==
    IF RootsFrom(ns, heap.min_node, heap.min_node) >= 2
    THEN [nodes |-> ns, heap |-> heap, raised |-> TRUE]
    ELSE [nodes |-> ns, heap |-> heap, raised |-> FALSE]

\* remove_min().  No node ever gets a child (link runs only after a
\* comparison that raises), so the loop over z's children has no iteration.
remove_min(ns, heap) ==
    LET z == heap.min_node
        n1 == [ns EXCEPT ![ns[z].left].right = ns[z].right]
        n2 == [n1 EXCEPT ![n1[z].right].left = n1[z].left]
        rest == consolidate(n2, [heap EXCEPT !.min_node = n2[z].right])
    IN IF z = None
       THEN [nodes |-> ns, heap |-> heap, z |-> None, raised |-> FALSE]
       ELSE IF z = n2[z].right
       THEN [nodes |-> n2,
             heap |-> [heap EXCEPT !.min_node = None, !.n_nodes = @ - 1],
             z |-> z, raised |-> FALSE]
       ELSE IF rest.raised
       THEN [nodes |-> rest.nodes, heap |-> rest.heap, z |-> z, raised |-> TRUE]
       ELSE [nodes |-> rest.nodes,
             heap |-> [rest.heap EXCEPT !.n_nodes = @ - 1],
             z |-> z, raised |-> FALSE]

\* The Path list built by the loop of search(): from node back along the
\* parent references, each vertex put in front of the path so far.
RECURSIVE walk_parents(_, _, _)
walk_parents(ns, node, path) ==
    LET longer == <<[vertex |-> ns[node].data,
                     path_cost |-> ns[node].secondary_key]>> \o path
    IN IF ns[node].parent = None THEN longer
       ELSE walk_parents(ns, ns[node].parent, longer)

(***************************************************************************)
(* The search (search.py) as a state machine.                              *)
(***************************************************************************)
VARIABLES
    grid,               \* ExpansionPolicy._grid
    start, target,      \* ExpansionPolicy._start, _target (set by validate_instance)
    mode,               \* the entry point running: "search" or "search_costonly"
    pc,                 \* where the call stands
    exception,          \* the exception that ended the call, "" if none
    open,               \* Search.open
    nodes,              \* the store of search nodes
    roots_,             \* Search.roots_: root hash -> search node
    search_id_counter,  \* Search.search_id_counter (class attribute)
    expanded, insertions, generated, heap_ops, path_found,
    cost,               \* the local cost of search_costonly, then its result
    current,            \* the search node under expansion
    successors,         \* ExpansionPolicy._successors
    idx_succ,           \* ExpansionPolicy._idx_succ
    path,               \* the Path returned by search()
    visited,            \* the nodes dequeued by the running call, in order
    history,            \* one summary for each call that has ended
    endpoints,          \* the arguments of the two Interval constructors
    receiver, argument, \* the two Intervals of a call of covers (None: not built)
    point,              \* the point <<x, y>> given to contains (<<>>: none yet)
    answer,             \* "" at first, "built" once the Intervals are, then
                        \* what covers returned: "true" or "false", or what
                        \* contains returned: "contained" or "outside"
    map_file,           \* the arguments of the BitpackedGrid constructor: the
                        \* map file, or width and height alone (lines = <<>>)
    set_calls,          \* the calls of set_cell_is_traversable since then
    scanned,            \* the last scan of the grid: its arguments and results
    called              \* the last call of a function of the expansion policy,
                        \* the projection or the heuristic: its arguments and
                        \* what it returned (op = "": none yet)

vars == <<grid, start, target, mode, pc, exception, open, nodes, roots_,
          search_id_counter, expanded, insertions, generated, heap_ops,
          path_found, cost, current, successors, idx_succ, path, visited,
          history, endpoints, receiver, argument, point, answer,
          map_file, set_calls, scanned, called>>

search_vars == <<grid, start, target, mode, pc, exception, open, nodes, roots_,
                 search_id_counter, expanded, insertions, generated, heap_ops,
                 path_found, cost, current, successors, idx_succ, path, visited,
                 history>>

interval_vars == <<endpoints, receiver, argument, point, answer>>

grid_vars == <<map_file, set_calls, scanned, called>>

\* The maps of the scenarios, and every GridW x GridH map with at most
\* MaxBlocked blocked cells.
Scenario1Map == MapOf(3, 3, {})
Scenario2Map == MapOf(3, 3, {<<0, 1>>, <<1, 1>>})
Scenario3Map == MapOf(3, 3, {<<1, 1>>})
Scenario4Map == MapOf(5, 3, {})
Scenario5Map == MapOf(2, 2, {<<1, 0>>, <<0, 1>>})

ScenarioMaps == {Scenario1Map, Scenario2Map, Scenario3Map, Scenario4Map, Scenario5Map}

FamilyMaps ==
    {MapOf(GridW, GridH, b) :
        b \in {c \in SUBSET ((0..(GridW - 1)) \X (0..(GridH - 1))) :
                  Cardinality(c) <= MaxBlocked}}

Maps == ScenarioMaps \cup FamilyMaps

Cells(g) == (0..(g.map_width_original - 1)) \X (0..(g.map_height_original - 1))

\* A start or target as the callers build it: a point interval at its root.
PointNode(p) == from_points(Interval(Fx(p[1]), Fx(p[1]), p[2]), p[1], p[2], NoParent)

NoNode == from_points(Interval(0, 0, -1), -1, -1, NoParent)

NoCost == -1

Finished == pc \in {"returned", "done", "raised"}

Summary(c, e, gen, ops, vis, exc) ==
    [cost |-> c, expanded |-> e, generated |-> gen, heap_ops |-> ops,
     visited |-> vis, exception |-> exc]

Tup(n) == <<n.interval.left, n.interval.right, n.interval.row, n.root[1], n.root[2]>>

\* A Search and its ExpansionPolicy after construction.
Constructed ==
    /\ start = NoNode
    /\ target = NoNode
    /\ mode = "search_costonly"
    /\ pc = "idle"
    /\ exception = ""
    /\ open = FibonacciHeap
    /\ nodes = <<>>
    /\ roots_ = <<>>
    /\ search_id_counter = 0
    /\ expanded = 0
    /\ insertions = 0
    /\ generated = 0
    /\ heap_ops = 0
    /\ path_found = FALSE
    /\ cost = NoCost
    /\ current = None
    /\ successors = <<>>
    /\ idx_succ = 0
    /\ path = <<>>
    /\ visited = <<>>
    /\ history = <<>>

\* no scan yet
NoScan == [op |-> "", x |-> 0, y |-> 0, left |-> 0, right |-> 0,
           back |-> 0, first_word |-> 0, last_word |-> 0, stopped |-> TRUE]

Init ==
    /\ \E m \in Maps : map_file = m /\ grid = load(m)
    /\ Constructed
    /\ endpoints = <<>>
    /\ receiver = None
    /\ argument = None
    /\ point = <<>>
    /\ answer = ""
    /\ set_calls = 0
    /\ scanned = NoScan
    /\ called = [op |-> ""]

\* The start node is inserted into open (ins is the outcome of the insert).
start_inserted(ins) ==
    /\ nodes' = ins.nodes
    /\ open' = ins.heap
    /\ generated' = 1
    /\ pc' = IF ins.raised THEN "raised" ELSE "loop"
    /\ exception' = IF ins.raised THEN "TypeError" ELSE ""
    /\ history' = IF ins.raised
                  THEN Append(history, Summary(NoCost, 0, 1, 0, <<>>, "TypeError"))
                  ELSE history

\* The start node is generated, reset and inserted into open, which init()
\* has cleared (heap).  The store keeps the nodes that open still holds.
start_generated(st, tg, heap, kept) ==
    start_inserted(
        insert(Append(kept, reset_(SearchNode(st, Len(kept) + 1), Len(kept) + 1,
                                   search_id_counter + 1)),
               heap, Len(kept) + 1, get_value(st, tg), 0))

\* search_costonly up to the while loop: init(), validate_instance, and the
\* insertion of the start node.  st and tg are the start and target nodes,
\* m the entry point that was called.
begin_search(st, tg, m) ==
    /\ pc = "idle" \/ (Finished /\ ~(pc = "returned" /\ mode = "search"))
    /\ Len(history) < MaxRuns
    /\ history /= <<>> => (st.root = start.root /\ tg.root = target.root)
    /\ mode' = m
    /\ search_id_counter' = search_id_counter + 1
    /\ expanded' = 0
    /\ insertions' = 0
    /\ heap_ops' = 0
    /\ roots_' = <<>>
    /\ path_found' = FALSE
    /\ start' = st
    /\ target' = tg
    /\ cost' = NoCost
    /\ path' = <<>>
    /\ visited' = <<>>
    /\ current' = None
    /\ successors' = <<>>
    /\ idx_succ' = 0
    /\ IF validate_instance(grid, st, tg)
       THEN start_generated(st, tg, clear(open),
                            IF is_empty(clear(open)) THEN <<>> ELSE nodes)
       ELSE /\ nodes' = <<>>
            /\ exception' = ""
            /\ open' = clear(open)
            /\ generated' = 0
            /\ pc' = "returned"
            /\ history' = Append(history, Summary(NoCost, 0, 0, 0, <<>>, ""))
    /\ UNCHANGED <<grid, interval_vars, grid_vars>>

search_costonly ==
    \E s \in Cells(grid), t \in Cells(grid) :
        begin_search(PointNode(s), PointNode(t), "search_costonly")

search ==
    \E s \in Cells(grid), t \in Cells(grid) :
        begin_search(PointNode(s), PointNode(t), "search")

\* The pass of the outer loop after remove_min (rm) and expand (e): the
\* counters, then the goal test.
expanded_node(rm, e) ==
    /\ nodes' = rm.nodes
    /\ open' = rm.heap
    /\ current' = rm.z
    /\ idx_succ' = 0
    /\ IF rm.raised \/ e.err
       THEN /\ pc' = "raised"
            /\ exception' = IF rm.raised THEN "TypeError" ELSE "AssertionError"
            /\ successors' = <<>>
            /\ history' = Append(history,
                                 Summary(cost, expanded, generated, heap_ops,
                                         visited, exception'))
            /\ UNCHANGED <<expanded, heap_ops, visited, cost, path_found>>
       ELSE /\ successors' = e.nodes
            /\ expanded' = expanded + 1
            /\ heap_ops' = heap_ops + 1
            /\ visited' = Append(visited, Tup(rm.nodes[rm.z].data))
            /\ exception' = exception
            /\ IF contains(rm.nodes[rm.z].data.interval, target.root)
               THEN /\ cost' = rm.nodes[rm.z].key
                    /\ path_found' = TRUE
                    /\ pc' = "returned"
                    /\ history' = Append(history,
                                         Summary(cost', expanded', generated,
                                                 heap_ops', visited', ""))
               ELSE /\ pc' = IF Len(e.nodes) > 0 THEN "succ" ELSE "loop"
                    /\ UNCHANGED <<cost, path_found, history>>
    /\ UNCHANGED <<grid, start, target, mode, roots_, search_id_counter,
                   insertions, generated, path, interval_vars, grid_vars>>

\* The pass of the outer loop after remove_min (rm).
removed_min(rm) ==
    expanded_node(rm, expand(grid, target.root, start, rm.nodes[rm.z].data))

\* One pass of the outer while loop up to the loop over the neighbours:
\* remove_min, expand, the counters, then the goal test.
dequeue ==
    /\ pc = "loop"
    /\ ~is_empty(open)
    /\ removed_min(remove_min(nodes, open))

\* The neighbour is inserted into open (ins is the outcome of the insert).
neighbour_inserted(neighbour, root_hash, ins) ==
    IF ins.raised
    THEN /\ nodes' = ins.nodes
         /\ pc' = "raised"
         /\ exception' = "TypeError"
         /\ history' = Append(history,
                              Summary(cost, expanded, generated', heap_ops,
                                      visited, "TypeError"))
         /\ UNCHANGED <<open, roots_, heap_ops, insertions>>
    ELSE /\ nodes' = ins.nodes
         /\ open' = ins.heap
         /\ roots_' = (root_hash :> neighbour) @@ roots_
         /\ heap_ops' = heap_ops + 1
         /\ insertions' = insertions + 1
         /\ pc' = IF idx_succ' < Len(successors) THEN "succ" ELSE "loop"
         /\ UNCHANGED <<exception, history>>

\* The pass of the inner loop for the successor succ, whose g-value through
\* the current node is new_g_value.
neighbour_of(succ, new_g_value) ==
    LET neighbour == Len(nodes) + 1
        p_hash == hash(grid, nodes[current].data)
        root_hash == hash(grid, succ)
        root_rep == IF root_hash \in DOMAIN roots_ THEN roots_[root_hash] ELSE None
        root_best_g == nodes[root_rep].secondary_key
        within == (new_g_value - root_best_g) <= EPSILON
        eq == (new_g_value - root_best_g) >= -EPSILON
        p_rep_hash == hash(grid, nodes[nodes[root_rep].parent].data)
        do_insert ==
            IF root_rep = None THEN TRUE
            ELSE IF within /\ eq /\ nodes[root_rep].parent /= None
            THEN (root_hash = p_hash) \/ (p_rep_hash = p_hash)
            ELSE within
    IN /\ idx_succ' = idx_succ + 1
       /\ generated' = generated + 1
       /\ IF ~do_insert
          THEN /\ nodes' = Append(nodes, SearchNode(succ, neighbour))
               /\ pc' = IF idx_succ' < Len(successors) THEN "succ" ELSE "loop"
               /\ UNCHANGED <<open, roots_, heap_ops, insertions, exception, history>>
          ELSE neighbour_inserted(
                   neighbour, root_hash,
                   insert(Append(nodes,
                                 [reset_(SearchNode(succ, neighbour), neighbour,
                                         search_id_counter)
                                     EXCEPT !.parent = current]),
                          open, neighbour,
                          new_g_value + get_value(succ, target), new_g_value))
       /\ UNCHANGED <<grid, start, target, mode, search_id_counter, expanded,
                      path_found, cost, current, successors, path, visited,
                      interval_vars, grid_vars>>

\* One pass of the loop over the neighbours: next(), generate, root level
\* pruning, and the insertion into open.
neighbour_step ==
    /\ pc = "succ"
    /\ idx_succ < Len(successors)
    /\ neighbour_of(successors[idx_succ + 1],
                    nodes[current].secondary_key
                    + step_cost(nodes[current].data, successors[idx_succ + 1]))

\* The outer while loop ends with open empty: search_costonly returns cost.
return_cost ==
    /\ pc = "loop"
    /\ is_empty(open)
    /\ pc' = "returned"
    /\ history' = Append(history,
                         Summary(cost, expanded, generated, heap_ops, visited, ""))
    /\ UNCHANGED <<grid, start, target, mode, exception, open, nodes, roots_,
                   search_id_counter, expanded, insertions, generated, heap_ops,
                   path_found, cost, current, successors, idx_succ, path, visited,
                   interval_vars, grid_vars>>

\* The rest of search() once search_costonly has returned: the path is
\* generated from a new search node made for the target.
generate_path ==
    LET node == Len(nodes) + 1
        n1 == Append(nodes, SearchNode(target, node))
    IN /\ pc = "returned"
       /\ mode = "search"
       /\ pc' = "done"
       /\ IF cost /= NoCost
          THEN /\ nodes' = n1
               /\ generated' = generated + 1
               /\ path' = walk_parents(n1, node, <<>>)
          ELSE /\ path' = <<>>
               /\ UNCHANGED <<nodes, generated>>
       /\ UNCHANGED <<grid, start, target, mode, exception, open, roots_,
                      search_id_counter, expanded, insertions, heap_ops,
                      path_found, cost, current, successors, idx_succ, visited,
                      history, interval_vars, grid_vars>>

\* Search(expander): a fresh instance over the same expansion policy takes
\* the place of the one that has finished.
new_search ==
    /\ Finished
    /\ Len(history) < MaxRuns
    /\ pc' = "idle"
    /\ exception' = ""
    /\ open' = FibonacciHeap
    /\ nodes' = <<>>
    /\ roots_' = <<>>
    /\ expanded' = 0
    /\ insertions' = 0
    /\ generated' = 0
    /\ heap_ops' = 0
    /\ path_found' = FALSE
    /\ cost' = NoCost
    /\ current' = None
    /\ path' = <<>>
    /\ visited' = <<>>
    /\ UNCHANGED <<grid, start, target, mode, search_id_counter, successors,
                   idx_succ, history, interval_vars, grid_vars>>

Next ==
    \/ search_costonly
    \/ search
    \/ dequeue
    \/ neighbour_step
    \/ return_cost
    \/ generate_path
    \/ new_search

Spec == Init /\ [][Next]_vars

(***************************************************************************)
(* Properties of the search.                                               *)
(***************************************************************************)
\* C1: when search(start, target) has found a path (cost is not -1), the
\* Path it returns lists the turning points in forward order, from the start
\* root to the target, and its lengths sum to the reported cost (to 1e-6).
C1_PathFromStartToTarget ==
    (pc = "done" /\ cost /= NoCost) =>
        /\ Len(path) >= 1
        /\ path[1].vertex.root = start.root
        /\ path[Len(path)].vertex.root = target.root
        /\ Abs(path[Len(path)].path_cost - cost) <= 10 * EPSILON

\* C2: when the start cell or the target cell is not traversable,
\* search_costonly returns -1 with path_found false at once: no node is
\* generated, inserted into open, dequeued or expanded.
C2_BlockedEndpointReturnsAtOnce ==
    (/\ pc /= "idle"
     /\ \/ ~get_cell_is_traversable(grid, start.root[1], start.root[2])
        \/ ~get_cell_is_traversable(grid, target.root[1], target.root[2])) =>
        /\ pc \in {"returned", "done"}
        /\ cost = NoCost
        /\ ~path_found
        /\ is_empty(open)
        /\ nodes = <<>>
        /\ visited = <<>>
        /\ generated = 0 /\ insertions = 0 /\ expanded = 0 /\ heap_ops = 0

\* a call with a blocked target and a free start has returned
C2_Witness ==
    /\ pc = "returned"
    /\ get_cell_is_traversable(grid, start.root[1], start.root[2])
    /\ ~get_cell_is_traversable(grid, target.root[1], target.root[2])

\* C3: a completed search_costonly has cost -1 and path_found false exactly
\* when the instance is invalid or open became empty with no dequeued
\* interval containing the target; otherwise path_found is true and the cost
\* is not negative.
C3_MinusOneExactlyWhenExhausted ==
    pc \in {"returned", "done"} =>
        LET invalid ==
                \/ ~get_cell_is_traversable(grid, start.root[1], start.root[2])
                \/ ~get_cell_is_traversable(grid, target.root[1], target.root[2])
            reached ==
                \E i \in DOMAIN visited :
                    /\ visited[i][3] = target.root[2]
                    /\ Fx(target.root[1]) + EPSILON >= visited[i][1]
                    /\ Fx(target.root[1]) <= visited[i][2] + EPSILON
        IN /\ (cost = NoCost /\ ~path_found) <=> (invalid \/ (is_empty(open) /\ ~reached))
           /\ ~(cost = NoCost /\ ~path_found) => (path_found /\ cost >= 0)

\* a valid instance whose open list ran empty after two expansions
C3_Witness ==
    /\ pc = "returned"
    /\ cost = NoCost
    /\ expanded >= 2
    /\ is_empty(open)

\* C4: a search between two points of the grid never raises; every failure
\* is path_found false with cost -1.
C4_NeverRaises == exception = "" /\ pc /= "raised"

\* C5: when a path is found, the reported cost is at least h(start, target)
\* and at least the straight-line distance from the start to the target.
C5_CostAtLeastHeuristic ==
    path_found =>
        /\ cost >= get_value(start, target)
        /\ cost >= h(Fx(start.root[1]), start.root[2],
                     Fx(target.root[1]), target.root[2])

\* a path found with a cost above the straight-line distance
C5_Witness ==
    /\ path_found
    /\ cost > h(Fx(start.root[1]), start.root[2], Fx(target.root[1]), target.root[2])

\* C6: calls with the same grid, start and target, on the same Search or on
\* a fresh one, dequeue the same nodes in the same order and end with the
\* same cost, expanded, generated and heap_ops.
C6_RepeatedRunsAgree ==
    \A i \in DOMAIN history : \A j \in DOMAIN history : history[i] = history[j]

\* a second call has ended after finding a path in two expansions or more
C6_Witness ==
    /\ Len(history) = 2
    /\ history[2].cost /= NoCost
    /\ history[2].expanded >= 2

\* C7: on '...' / '@@.' / '...' the search from (0,0) to (0,2) finds a path
\* of cost 2 * sqrt(5) (to 1e-6).
C7_RowOfObstaclesCost ==
    (/\ Finished
     /\ grid = load(Scenario2Map)
     /\ start.root = <<0, 0>>
     /\ target.root = <<0, 2>>) =>
        /\ path_found
        /\ Abs(cost - 2 * h(Fx(0), 0, Fx(2), 1)) <= 10 * EPSILON

\* C8: on the 5x3 free grid the search from (0,1) to (4,1) reports cost 4
\* and dequeues two nodes: the start point node, then a flat successor on
\* row 1 whose interval contains the target.
C8_CorridorCostAndVisits ==
    (/\ Finished
     /\ grid = load(Scenario4Map)
     /\ start.root = <<0, 1>>
     /\ target.root = <<4, 1>>) =>
        /\ pc /= "raised"
        /\ path_found
        /\ cost = Fx(4)
        /\ expanded = 2
        /\ Len(visited) = 2
        /\ visited[1] = <<Fx(0), Fx(0), 1, 0, 1>>
        /\ visited[2][3] = 1 /\ visited[2][5] = 1
        /\ visited[2][1] < visited[2][2]
        /\ visited[2][1] <= Fx(4) /\ Fx(4) <= visited[2][2]

\* that search has ended
C8_Witness ==
    /\ pc = "returned"
    /\ grid = load(Scenario4Map)
    /\ start.root = <<0, 1>>
    /\ target.root = <<4, 1>>
    /\ Len(visited) = 2

\* C9: on '.@' / '@.' the start (1,1) is a double corner: expanding it
\* generates no successor, and the search to (0,0) ends with path_found false
\* and cost -1.
C9_PinchStartNoSuccessors ==
    (/\ pc /= "idle"
     /\ grid = load(Scenario5Map)
     /\ start.root = <<1, 1>>
     /\ target.root = <<0, 0>>) =>
        /\ pc \in {"loop", "returned", "done"}
        /\ successors = <<>>
        /\ generated = 1
        /\ Len(nodes) = 1
        /\ Finished => (~path_found /\ cost = NoCost /\ expanded = 1)

\* that search has ended after expanding the start, a double corner
C9_Witness ==
    /\ pc = "returned"
    /\ grid = load(Scenario5Map)
    /\ start.root = <<1, 1>>
    /\ target.root = <<0, 0>>
    /\ expanded = 1
    /\ get_point_is_double_corner(grid, 1, 1)

(***************************************************************************)
(* Interval.covers (interval.py) on its own: two Intervals are built from  *)
(* endpoints and rows drawn from bounded sets, then covers is called.      *)
(***************************************************************************)
\* The endpoints: whole numbers, halves, and values at less than EPSILON and
\* at two EPSILON from them.
Endpoints ==
    {Fine * UNIT, (3 * Fine * UNIT) \div 2, (3 * Fine * UNIT) \div 2 + 1,
     (3 * Fine * UNIT) \div 2 + 2 * Fine, 2 * Fine * UNIT - 1, 2 * Fine * UNIT,
     2 * Fine * UNIT + 1, 3 * Fine * UNIT}

Rows == 0..MaxRow

CoversInit ==
    /\ map_file = Scenario1Map
    /\ grid = load(Scenario1Map)
    /\ set_calls = 0
    /\ scanned = NoScan
    /\ called = [op |-> ""]
    /\ Constructed
    /\ endpoints \in [a : Endpoints, b : Endpoints, r : Rows,
                       c : Endpoints, d : Endpoints, s : Rows]
    /\ receiver = None
    /\ argument = None
    /\ point = <<>>
    /\ answer = ""

\* Interval(a, b, r) and Interval(c, d, s)
new_intervals ==
    /\ answer = ""
    /\ receiver' = IntervalAt(endpoints.a, endpoints.b, endpoints.r, Fine)
    /\ argument' = IntervalAt(endpoints.c, endpoints.d, endpoints.s, Fine)
    /\ answer' = "built"
    /\ UNCHANGED <<search_vars, endpoints, point, grid_vars>>

\* receiver.covers(argument)
call_covers ==
    /\ answer = "built"
    /\ answer' = IF covers(receiver, argument, Fine) THEN "true" ELSE "false"
    /\ UNCHANGED <<search_vars, endpoints, receiver, argument, point, grid_vars>>

\* The y of the points given to contains: -0.5, 0 and 1.5
PointsY == {-((Fine * UNIT) \div 2), 0, (3 * Fine * UNIT) \div 2}

\* receiver.contains(Point2D(x, y)); x is drawn from the endpoints, which
\* lie at less than EPSILON or at more than EPSILON from one another
call_contains ==
    /\ answer = "built"
    /\ \E px \in Endpoints, py \in PointsY :
           /\ point' = <<px, py>>
           /\ answer' = IF contains_at(receiver, px, py, Fine)
                         THEN "contained" ELSE "outside"
    /\ UNCHANGED <<search_vars, endpoints, receiver, argument, grid_vars>>

CoversNext ==
    \/ new_intervals
    \/ call_covers
    \/ call_contains

CoversSpec == CoversInit /\ [][CoversNext]_vars

(***************************************************************************)
(* Properties of Interval.covers.                                          *)
(***************************************************************************)
\* C10: Interval(a, b, r).covers(Interval(c, d, r)) is true when
\* a <= c <= d <= b; covers is false when the rows differ, and false when
\* the argument extends past either endpoint of the receiver.
C10_CoversFalsePastEndpoint ==
    answer \in {"true", "false"} =>
        /\ (/\ endpoints.r = endpoints.s
            /\ endpoints.a <= endpoints.c
            /\ endpoints.c <= endpoints.d
            /\ endpoints.d <= endpoints.b) => answer = "true"
        /\ endpoints.r /= endpoints.s => answer = "false"
        /\ (\/ argument.left < receiver.left
            \/ argument.right > receiver.right) => answer = "false"

\* C10, amended: as above, but covers is false when the argument extends
\* past an endpoint of the receiver by DOUBLE_INEQUALITY_THRESHOLD or more;
\* an argument on the receiver's row with both endpoints nearer than that to
\* the receiver's is covered, past them or not.
C10_CoversFalsePastThreshold ==
    answer \in {"true", "false"} =>
        /\ (/\ endpoints.r = endpoints.s
            /\ endpoints.a <= endpoints.c
            /\ endpoints.c <= endpoints.d
            /\ endpoints.d <= endpoints.b) => answer = "true"
        /\ endpoints.r /= endpoints.s => answer = "false"
        /\ (\/ argument.left <= receiver.left - Fine
            \/ argument.right >= receiver.right + Fine) => answer = "false"
        /\ (/\ endpoints.r = endpoints.s
            /\ Abs(argument.left - receiver.left) < Fine
            /\ Abs(argument.right - receiver.right) < Fine) => answer = "true"

\* covers has answered false for an argument on the receiver's row that
\* starts inside the receiver and ends past its right endpoint
C10_Witness ==
    /\ answer = "false"
    /\ endpoints.r = endpoints.s
    /\ argument.left >= receiver.left
    /\ argument.right >= receiver.right + Fine
    /\ receiver.left < receiver.right


(***************************************************************************)
(* Properties of Interval.contains.                                        *)
(***************************************************************************)
\* C11: contains(p) is true iff the row of the interval is floor(p.y) and
\* left - EPSILON <= p.x <= right + EPSILON: a point less than EPSILON past
\* an end is contained, a point more than EPSILON past it is not.
C11_ContainsFloorRow ==
    answer \in {"contained", "outside"} =>
        ((answer = "contained") <=>
            /\ receiver.row = point[2] \div (Fine * UNIT)
            /\ receiver.left - Fine <= point[1]
            /\ point[1] <= receiver.right + Fine)


\* C12: a Node built with a parent has g = parent.g + the Euclidean distance
\* from the parent's root to its own root, and a Node built without a parent
\* has g = 0; so the g of a node is the sum of the root-to-root distances
\* along its parent chain plus the g of the first node of the chain.  Checked
\* on every Node the search holds: the vertices of the search nodes and the
\* successors of the node under expansion (the chain of a successor is the one
\* of that node, while the loop over the successors runs).
C12_GIsParentGPlusDistance ==
    LET dist(p, r) == h(Fx(p[1]), p[2], Fx(r[1]), r[2])
        step(n) == IF n.parent.none THEN n.g = 0
                   ELSE n.g = n.parent.g + dist(n.parent.root, n.root)
        RECURSIVE chain(_)
        chain(i) == IF nodes[i].parent = None THEN nodes[i].data.g
                    ELSE chain(nodes[i].parent)
                         + dist(nodes[nodes[i].parent].data.root, nodes[i].data.root)
    IN /\ \A i \in 1..Len(nodes) :
              /\ step(nodes[i].data)
              /\ nodes[i].data.g = chain(i)
       /\ \A i \in 1..Len(successors) :
              /\ step(successors[i])
              /\ pc = "succ" =>
                     successors[i].g
                         = chain(current)
                           + dist(nodes[current].data.root, successors[i].root)

\* A successor whose parent is itself at a positive distance from the start,
\* with its root away from its parent's: a chain of two positive steps.
C12_Witness ==
    \E i \in 1..Len(successors) :
        /\ pc = "succ"
        /\ ~successors[i].parent.none
        /\ successors[i].parent.g > 0
        /\ successors[i].g > successors[i].parent.g


(***************************************************************************)
(* The bitpacked grid alone: a grid is constructed from a map file or from *)
(* a width and a height, then its cells are set and its rows are scanned.  *)
(***************************************************************************)
\* The arguments of the constructor: every SmallW x SmallH map body over the
\* characters '.', 'G', '@' and 'T', the two one-row maps without obstacle
\* that end next to a word boundary, and SmallW, SmallH without a map file.
GridFiles ==
    {[width |-> SmallW, height |-> SmallH, lines |-> l] :
        l \in [1..SmallH -> [1..SmallW -> {".", "G", "@", "T"}]]}
    \cup {MapOf(EdgeW, 1, {}), MapOf(WideW, 1, {})}
    \cup {[width |-> SmallW, height |-> SmallH, lines |-> <<>>]}

\* BitpackedGrid(map_file=...) or BitpackedGrid(width=..., height=...)
GridInit ==
    /\ \E m \in GridFiles :
           /\ map_file = m
           /\ grid = IF m.lines = <<>> THEN init(m.width, m.height) ELSE load(m)
    /\ set_calls = 0
    /\ scanned = NoScan
    /\ called = [op |-> ""]
    /\ Constructed
    /\ endpoints = <<>>
    /\ receiver = None
    /\ argument = None
    /\ point = <<>>
    /\ answer = ""

\* grid.set_cell_is_traversable(cx, cy, value) on a cell inside the grid.
\* The scans leave the grid as it is, so the calls that follow a scan are
\* those that follow the state the scan was made in: they are taken from
\* that state.
set_cell ==
    /\ scanned = NoScan
    /\ set_calls < MaxSetCalls
    /\ \E cx \in 0..(grid.map_width_original - 1),
          cy \in 0..(grid.map_height_original - 1), value \in BOOLEAN :
           grid' = set_cell_is_traversable(grid, cx, cy, value)
    /\ set_calls' = set_calls + 1
    /\ scanned' = NoScan
    /\ UNCHANGED <<start, target, mode, pc, exception, open, nodes, roots_,
                   search_id_counter, expanded, insertions, generated, heap_ops,
                   path_found, cost, current, successors, idx_succ, path,
                   visited, history, interval_vars, map_file, called>>

\* grid.scan_cells_left(x, y) and grid.scan_cells_right(x, y) from a cell of
\* the grid, then scan_cells_right from the cell scan_cells_left returned.
\* first_word and last_word are the words at which the two loops stopped;
\* stopped tells that each loop ended on a word with an obstacle in it.
call_scan_cells ==
    /\ scanned = NoScan
    /\ \E x \in 0..(grid.map_width_original - 1),
          y \in 0..(grid.map_height_original - 1) :
           LET tile_id == get_map_id(grid, x, y)
               t_index == ShiftRight(tile_id, LOG2_BITS_PER_WORD)
               start_bit_index == tile_id % BITS_PER_WORD
               here == Complement(WordAt(grid.map_cells, t_index))
               l == scan_cells_left_loop(grid, t_index,
                                         {b \in here : b <= start_bit_index})
               r == scan_cells_right_loop(grid, t_index,
                                          {b \in here : b >= start_bit_index})
               left == scan_cells_left(grid, x, y)
           IN scanned' = [op |-> "scan_cells", x |-> x, y |-> y,
                          left |-> left,
                          right |-> scan_cells_right(grid, x, y),
                          back |-> scan_cells_right(grid, left, y),
                          first_word |-> l.t_index,
                          last_word |-> r.t_index,
                          stopped |-> l.stop_pos < BITS_PER_WORD
                                      /\ r.stop_pos < BITS_PER_WORD]
    /\ UNCHANGED <<search_vars, interval_vars, map_file, set_calls, called>>

\* grid.scan_left(x, row) and grid.scan_right(x, row) from a point of the
\* lattice: x is a whole number or a whole number and a half
call_scan ==
    /\ scanned = NoScan
    /\ \E k \in 0..(2 * grid.map_width_original),
          row \in 0..grid.map_height_original :
           scanned' = [NoScan EXCEPT !.op = "scan",
                                     !.x = (k * UNIT) \div 2,
                                     !.y = row,
                                     !.left = scan_left(grid, (k * UNIT) \div 2, row),
                                     !.right = scan_right(grid, (k * UNIT) \div 2, row)]
    /\ UNCHANGED <<search_vars, interval_vars, map_file, set_calls, called>>

GridNext ==
    \/ set_cell
    \/ call_scan_cells
    \/ call_scan

GridSpec == GridInit /\ [][GridNext]_vars


\* C13: for every row y and every x inside a maximal run of traversable cells
\* of that row, scan_cells_right(scan_cells_left(x, y), y) - 1 = x.
C13_ScanCellsRoundTrip ==
    (scanned.op = "scan_cells"
        /\ get_cell_is_traversable(grid, scanned.x, scanned.y))
    => scanned.back - 1 = scanned.x

\* C13 as the code has it: from a traversable cell, scan_cells_left returns a
\* blocked cell to the left of x, and scan_cells_right from that cell returns
\* the same cell, a blocked start being its own first obstacle.
C13_ScanCellsRightStaysAtWall ==
    (scanned.op = "scan_cells"
        /\ get_cell_is_traversable(grid, scanned.x, scanned.y))
    => /\ scanned.back = scanned.left
       /\ scanned.left < scanned.x
       /\ ~get_cell_is_traversable(grid, scanned.left, scanned.y)

\* a traversable cell of the second word of a row was scanned back to the
\* padding at the left of the row
C13_Witness ==
    /\ scanned.op = "scan_cells"
    /\ get_cell_is_traversable(grid, scanned.x, scanned.y)
    /\ scanned.x >= BITS_PER_WORD - PADDING_
    /\ scanned.back = -1

\* C14: scan_cells_right(x, y) is the smallest x' >= x with cell (x', y)
\* blocked, and scan_cells_left(x, y) the largest x' <= x with cell (x', y)
\* blocked, also when the traversable run crosses a word boundary.
C14_ScanCellsFindNearestBlocked ==
    scanned.op = "scan_cells" =>
        /\ scanned.right >= scanned.x
        /\ ~get_cell_is_traversable(grid, scanned.right, scanned.y)
        /\ \A c \in scanned.x..(scanned.right - 1) :
               get_cell_is_traversable(grid, c, scanned.y)
        /\ scanned.left <= scanned.x
        /\ ~get_cell_is_traversable(grid, scanned.left, scanned.y)
        /\ \A c \in (scanned.left + 1)..scanned.x :
               get_cell_is_traversable(grid, c, scanned.y)

\* both scans crossed the word boundary of a row wider than a word
C14_Witness ==
    /\ scanned.op = "scan_cells"
    /\ grid.map_width_in_words = 2
    /\ scanned.first_word < scanned.last_word
    /\ scanned.left < BITS_PER_WORD - PADDING_ - 1
    /\ scanned.right > BITS_PER_WORD - PADDING_
    /\ scanned.left < scanned.x - 1
    /\ scanned.x + 1 < scanned.right

\* C15: from every cell of the grid the word-stepping loops of scan_cells_left
\* and scan_cells_right end on a word of the bitmap that holds a blocked
\* cell: no word outside the bitmap is read.
C15_ScanCellsStayInBitmap ==
    scanned.op = "scan_cells" =>
        /\ scanned.stopped
        /\ scanned.first_word \in 0..(grid.map_size - 1)
        /\ scanned.last_word \in 0..(grid.map_size - 1)

\* the scan to the right left the word of the row it started in: the row is
\* traversable up to its last bit and the loop stopped in the next word
C15_Witness ==
    /\ scanned.op = "scan_cells"
    /\ scanned.stopped
    /\ scanned.last_word
           > ShiftRight(get_map_id(grid, scanned.x, scanned.y), LOG2_BITS_PER_WORD)
    /\ grid.map_width_in_words = 1

\* C16: for every lattice row 0 <= row <= H and every x with 0 <= x <= W,
\* scan_left(x, row) and scan_right(x, row) are whole points of [0, W], and
\* for a whole x, scan_left(x, row) <= x <= scan_right(x, row).
C16_ScanWithinRow ==
    scanned.op = "scan" =>
        /\ scanned.left \in 0..grid.map_width_original
        /\ scanned.right \in 0..grid.map_width_original
        /\ (scanned.x % UNIT = 0) =>
               /\ Fx(scanned.left) <= scanned.x
               /\ scanned.x <= Fx(scanned.right)

\* a scan from a whole point inside a row that moved both ways
C16_Witness ==
    /\ scanned.op = "scan"
    /\ scanned.x % UNIT = 0
    /\ Fx(scanned.left) < scanned.x
    /\ scanned.x < Fx(scanned.right)
    /\ set_calls > 0

\* C17: after any sequence of set_cell calls, at every point (x, y) with
\* 0 <= x <= W and 0 <= y <= H the stored flags agree with the cells: visible
\* iff one of the four incident cells is traversable, corner iff exactly one
\* incident cell is blocked or exactly the two diagonally opposite ones are,
\* double corner iff exactly two diagonally opposite cells are blocked.
\* (A scan leaves the grid as it is: the grids are those of the states in
\* which no scan is recorded.)
C17_FlagsAgreeWithCells ==
    scanned = NoScan =>
    \A x \in 0..grid.map_width_original, y \in 0..grid.map_height_original :
        LET blocked == {c \in {<<x - 1, y - 1>>, <<x, y - 1>>,
                               <<x - 1, y>>, <<x, y>>} :
                           ~get_cell_is_traversable(grid, c[1], c[2])}
            diagonal == blocked = {<<x - 1, y - 1>>, <<x, y>>}
                        \/ blocked = {<<x, y - 1>>, <<x - 1, y>>}
        IN /\ get_point_is_visible(grid, x, y) <=> Cardinality(blocked) < 4
           /\ get_point_is_corner(grid, x, y)
                  <=> (Cardinality(blocked) = 1 \/ diagonal)
           /\ get_point_is_double_corner(grid, x, y) <=> diagonal
           /\ get_point_is_double_corner(grid, x, y) => get_point_is_corner(grid, x, y)
           /\ get_point_is_corner(grid, x, y) => get_point_is_visible(grid, x, y)

\* two set_cell calls on a grid built without a map file, all blocked, have
\* opened two diagonally opposite cells: the point between is a double corner
C17_Witness ==
    /\ scanned = NoScan
    /\ set_calls = MaxSetCalls
    /\ get_point_is_double_corner(grid, 1, 1)
    /\ get_point_is_corner(grid, 1, 1)
    /\ map_file.lines = <<>>

\* C18: the grid has a two-cell ring of padding on every side: after any
\* sequence of set_cell calls on cells of the grid, every cell with x in
\* {-2, -1, W, W+1} or y in {-2, -1, H, H+1} is read from a word of the
\* bitmap and reads as non-traversable.
C18_PaddingRingBlocked ==
    \A x \in (-PADDING_)..(grid.map_width_original + PADDING_ - 1),
       y \in (-PADDING_)..(grid.map_height_original + PADDING_ - 1) :
        (x \notin 0..(grid.map_width_original - 1)
            \/ y \notin 0..(grid.map_height_original - 1))
        => /\ ShiftRight(get_map_id(grid, x, y), LOG2_BITS_PER_WORD)
                  \in 0..(grid.map_size - 1)
           /\ ~get_cell_is_traversable(grid, x, y)

\* C20: when a map file is loaded, a cell is traversable iff its character in
\* the map body is '.' or 'G'.
C20_LoadedCellsFollowCharacters ==
    (set_calls = 0 /\ map_file.lines /= <<>>) =>
        \A x \in 0..(map_file.width - 1), y \in 0..(map_file.height - 1) :
            get_cell_is_traversable(grid, x, y)
                <=> map_file.lines[y + 1][x + 1] \in {".", "G"}


\* C19: the open list is a priority queue over its contents, the nodes
\* inserted and not yet removed: every node given to insert becomes one of
\* the contents, from which remove_min takes a least node.  The nodes that
\* insert has put on the root list of open are therefore as many as n_nodes
\* counts, and is_empty holds iff there is none.
C19_OpenHoldsWhatWasInserted ==
    /\ is_empty(open) <=> open.n_nodes = 0
    /\ ~is_empty(open) =>
           RootsFrom(nodes, open.min_node, open.min_node) = open.n_nodes


\* C21: the goal test comes before the expansion: the step that dequeues a
\* node whose interval contains the target's root ends the search with
\* path_found true and does not call expand on that node, so it leaves the
\* successors held by the expander as they were.
C21_GoalNodeNotExpanded ==
    [][(path_found' /\ ~path_found) => UNCHANGED successors]_vars

\* C22: root-level pruning.  A successor v of the expanded node u, with
\* g' = u.g + step_cost, is inserted into open iff roots_ has no entry for
\* hash(v.root), or g' < rep.g - eps, or |g' - rep.g| <= eps and (rep has no
\* parent or hash(v.root) = hash(u.root) or hash(rep.parent.root) =
\* hash(u.root)), where rep is the entry of roots_; on insertion the entry
\* of roots_ becomes v with g = g'.
C22_RootLevelPruning ==
    [][pc = "succ" =>
          LET u == nodes[current]
              v == successors[idx_succ + 1]
              g_new == u.secondary_key + step_cost(u.data, v)
              rh == hash(grid, v)
              known == rh \in DOMAIN roots_
              rep == nodes[roots_[rh]]
              allowed ==
                  \/ ~known
                  \/ g_new < rep.secondary_key - EPSILON
                  \/ /\ Abs(g_new - rep.secondary_key) <= EPSILON
                     /\ \/ rep.parent = None
                        \/ rh = hash(grid, u.data)
                        \/ hash(grid, nodes[rep.parent].data) = hash(grid, u.data)
          IN /\ (insertions' = insertions + 1) <=> allowed
             /\ allowed =>
                    /\ rh \in DOMAIN roots_'
                    /\ nodes'[roots_'[rh]].data = v
                    /\ nodes'[roots_'[rh]].secondary_key = g_new
                    /\ open'.n_nodes = open.n_nodes + 1]_vars

\* C23: at every point of a search, each search node that has been inserted
\* has as its parent the node that was being expanded when it was inserted,
\* and the start node has none, whatever the heap has done since; the parent
\* references lead from every inserted node to the start node, and the
\* root-to-root distances along them sum to the node's g, its secondary key.
C23_ParentChainLeadsToStart ==
    LET inserted == {i \in 1..Len(nodes) : nodes[i].search_id = search_id_counter}
        dist(p, r) == h(Fx(p[1]), p[2], Fx(r[1]), r[2])
        RECURSIVE chain(_)
        chain(i) == IF nodes[i].parent = None THEN 0
                    ELSE chain(nodes[i].parent)
                         + dist(nodes[nodes[i].parent].data.root, nodes[i].data.root)
        RECURSIVE first(_)
        first(i) == IF nodes[i].parent = None THEN i ELSE first(nodes[i].parent)
    IN pc \in {"loop", "succ", "returned", "raised"} =>
         \A i \in inserted :
           /\ nodes[i].parent = None => nodes[i].data = start
           /\ nodes[i].parent /= None =>
                  /\ nodes[i].parent \in inserted
                  /\ nodes[i].parent < i
                  /\ nodes[i].data.parent = ParentRef(nodes[nodes[i].parent].data)
           /\ nodes[first(i)].data = start
           /\ nodes[i].secondary_key = chain(i)

\* a node two parent references away from the start, at a positive distance
\* from its parent, is in the store after its parent was removed from open
C23_Witness ==
    /\ pc = "loop"
    /\ \E i \in 1..Len(nodes) :
           /\ nodes[i].search_id = search_id_counter
           /\ nodes[i].parent /= None
           /\ nodes[nodes[i].parent].parent /= None
           /\ nodes[i].secondary_key > nodes[nodes[i].parent].secondary_key
           /\ nodes[nodes[i].parent].secondary_key > 0

\* C24: every successor produced by expand has interval.left <= interval.right
\* and a root that is not strictly inside its interval: when root.y is the
\* row of the interval, root.x <= interval.left or root.x >= interval.right.
C24_RootNotInsideInterval ==
    \A i \in 1..Len(successors) :
        LET n == successors[i] IN
        /\ n.interval.left <= n.interval.right
        /\ n.root[2] = n.interval.row =>
               \/ Fx(n.root[1]) <= n.interval.left
               \/ Fx(n.root[1]) >= n.interval.right

\* a flat successor, on the row of its root, of a node that is not the start
C24_Witness ==
    /\ pc = "succ"
    /\ nodes[current].parent /= None
    /\ \E i \in 1..Len(successors) :
           /\ successors[i].root[2] = successors[i].interval.row
           /\ successors[i].interval.left < successors[i].interval.right

(***************************************************************************)
(* The projection, the expansion policy's tests and the heuristic alone:   *)
(* on a constructed grid, one function is called on points of the lattice  *)
(* of the first SmallW columns and SmallH rows (whole numbers and whole    *)
(* numbers and a half).                                                    *)
(***************************************************************************)
\* IntervalProjection().project_flat(ileft, iright, rootx, rooty, grid)
call_project_flat ==
    /\ called.op = ""
    /\ \E i \in 0..(2 * SmallW), j \in 0..(2 * SmallW),
          rootx \in 0..SmallW, rooty \in 0..SmallH :
           /\ i <= j
           /\ called' = [op |-> "project_flat",
                         ileft |-> (i * UNIT) \div 2,
                         iright |-> (j * UNIT) \div 2,
                         rootx |-> rootx, rooty |-> rooty,
                         projection |->
                             project_flat(project_unset(NewProjection),
                                          (i * UNIT) \div 2, (j * UNIT) \div 2,
                                          rootx, rooty, grid)]
    /\ UNCHANGED <<search_vars, interval_vars, map_file, set_calls, scanned>>

\* ExpansionPolicy.sterile(left, right, row)
call_sterile ==
    /\ called.op = ""
    /\ \E i \in 0..(2 * SmallW), j \in 0..(2 * SmallW), row \in 0..(SmallH - 1) :
           /\ i <= j
           /\ called' = [op |-> "sterile",
                         left |-> (i * UNIT) \div 2,
                         right |-> (j * UNIT) \div 2,
                         row |-> row,
                         returned |-> sterile(grid, (i * UNIT) \div 2,
                                              (j * UNIT) \div 2, row)]
    /\ UNCHANGED <<search_vars, interval_vars, map_file, set_calls, scanned>>

\* Heuristic.get_value(n, t) for a node n of root (rootx, rooty) and interval
\* [0, right] on row, and a target node t
call_get_value ==
    /\ called.op = ""
    /\ \E right \in 0..SmallW, row \in 0..SmallH,
          rootx \in 0..SmallW, rooty \in 0..SmallH,
          tx \in 0..SmallW, ty \in 0..SmallH :
           LET n == from_points(Interval(0, Fx(right), row), rootx, rooty, NoParent)
               t == from_points(Interval(Fx(tx), Fx(tx), ty), tx, ty, NoParent)
           IN called' = [op |-> "get_value", n |-> n, t |-> t,
                         targety |-> get_value_targety(n, t),
                         returned |-> get_value(n, t)]
    /\ UNCHANGED <<search_vars, interval_vars, map_file, set_calls, scanned>>

\* ExpansionPolicy.intermediate(interval, rootx, rooty)
call_intermediate ==
    /\ called.op = ""
    /\ \E i \in 0..(2 * SmallW), j \in 0..(2 * SmallW), row \in 0..SmallH,
          rootx \in 0..SmallW, rooty \in 0..SmallH :
           /\ i <= j
           /\ LET interval == Interval((i * UNIT) \div 2, (j * UNIT) \div 2, row)
              IN called' = [op |-> "intermediate", interval |-> interval,
                            rootx |-> rootx, rooty |-> rooty,
                            returned |-> intermediate(grid, interval, rootx, rooty)]
    /\ UNCHANGED <<search_vars, interval_vars, map_file, set_calls, scanned>>

\* projection.project(node, grid), then cone_node_nobs(node, retval,
\* projection) on an empty list, for a cone node and a target in a corner of
\* the lattice
call_cone_node_nobs ==
    /\ called.op = ""
    /\ \E i \in 0..(2 * SmallW), j \in 0..(2 * SmallW), row \in 0..SmallH,
          rootx \in 0..SmallW, rooty \in 0..SmallH,
          t \in {<<0, 0>>, <<SmallW, SmallH>>} :
           /\ i <= j
           /\ rooty /= row
           /\ LET node == from_points(
                              Interval((i * UNIT) \div 2, (j * UNIT) \div 2, row),
                              rootx, rooty, NoParent)
                  projection == project_node(NewProjection, node, grid)
              IN called' = [op |-> "cone_node_nobs", node |-> node, t |-> t,
                            projection |-> projection,
                            retval |-> cone_node_nobs(grid, t, node,
                                                      NoSuccessors, projection)]
    /\ UNCHANGED <<search_vars, interval_vars, map_file, set_calls, scanned>>

ExpanderSpec ==
    GridInit /\ [][\/ call_project_flat
                   \/ call_sterile
                   \/ call_get_value
                   \/ call_intermediate
                   \/ call_cone_node_nobs]_vars

\* C25: after a flat projection to the right (root.x <= interval.left),
\* dead_end is true iff both cells adjacent to the projected right endpoint,
\* on row ry and on row ry - 1, are blocked.
C25_DeadEndIffBothBlocked ==
    (called.op = "project_flat" /\ Fx(called.rootx) <= called.ileft)
    => (called.projection.deadend
        <=> /\ ~get_cell_is_traversable(grid, ToInt(called.projection.right),
                                        called.rooty)
            /\ ~get_cell_is_traversable(grid, ToInt(called.projection.right),
                                        called.rooty - 1))

\* C26: sterile(left, right, sterile_row) is true iff the cell at
\* floor(left + eps) and the cell at floor(right - eps) on sterile_row are
\* both blocked.
C26_SterileIffBothBlocked ==
    called.op = "sterile"
    => (called.returned
        <=> /\ ~get_cell_is_traversable(grid, ToInt(called.left + EPSILON),
                                        called.row)
            /\ ~get_cell_is_traversable(grid, ToInt(called.right - EPSILON),
                                        called.row))

\* C27: get_value(n, t) mirrors the target across the interval row exactly
\* when the interval row lies strictly between the root row and the target
\* row, and leaves the target row unchanged in every other case.
C27_MirrorsWhenRowBetween ==
    called.op = "get_value"
    => LET irow == called.n.interval.row
           rooty == called.n.root[2]
           ty == called.t.root[2]
       IN called.targety = IF (rooty < irow /\ irow < ty) \/ (ty < irow /\ irow < rooty)
                           THEN 2 * irow - ty
                           ELSE ty

\* C27 as the code has it: the target is mirrored across the interval row
\* exactly when the root row and the target row lie strictly on the same side
\* of the interval row, and the value returned is then at least the rise from
\* the root row to the mirrored row.
C27_MirrorsWhenSameSide ==
    called.op = "get_value"
    => LET irow == called.n.interval.row
           rooty == called.n.root[2]
           ty == called.t.root[2]
           same_side == (rooty < irow /\ ty < irow) \/ (rooty > irow /\ ty > irow)
       IN /\ called.targety = IF same_side THEN 2 * irow - ty ELSE ty
          /\ same_side => called.returned >= UNIT * Abs(rooty - (2 * irow - ty))

C27_Witness ==
    /\ called.op = "get_value"
    /\ called.n.root[2] < called.n.interval.row
    /\ called.t.root[2] < called.n.interval.row
    /\ called.targety > called.n.interval.row
    /\ called.returned > 0

\* C28: intermediate(interval, rx, ry) returns false whenever an endpoint of
\* the interval is discrete, is a corner point of the grid, and is taut
\* either because the cell beyond it on the adjacent row is blocked or
\* because the root's column lies beyond that endpoint (rx > right for the
\* right endpoint, rx < left for the left endpoint); it returns true only
\* when neither endpoint qualifies.
C28_IntermediateTautEndpoints ==
    called.op = "intermediate"
    => LET i == called.interval
           adjacent == IF called.rooty < i.row THEN i.row - 1 ELSE i.row
           left_taut == /\ i.discrete_left
                        /\ get_point_is_corner(grid, ToInt(i.left), i.row)
                        /\ \/ ~get_cell_is_traversable(grid, ToInt(i.left) - 1, adjacent)
                           \/ Fx(called.rootx) < i.left
           right_taut == /\ i.discrete_right
                         /\ get_point_is_corner(grid, ToInt(i.right), i.row)
                         /\ \/ ~get_cell_is_traversable(grid, ToInt(i.right), adjacent)
                            \/ Fx(called.rootx) > i.right
       IN called.returned <=> ~(left_taut \/ right_taut)

\* C29: in cone_node_nobs, for an observable projection, the flat successor
\* that turns around a discrete corner endpoint of the interval is generated
\* only when the cell beside that endpoint on the row lying on the root's
\* side of the interval row is blocked: the checked row is irow - 1 when the
\* root is above the interval (root.y < irow) and irow when it is below.
C29_FlatTurnNeedsBlockedCellOnRootSide ==
    (called.op = "cone_node_nobs" /\ called.projection.valid
        /\ called.projection.observable /\ ~called.retval.err)
    => LET i == called.node.interval
           checked == IF called.node.root[2] < i.row THEN i.row - 1 ELSE i.row
           flat == {k \in 1..Len(called.retval.nodes) :
                        called.retval.nodes[k].interval.row = i.row}
       IN /\ (\E k \in flat : called.retval.nodes[k].interval.right <= i.left)
             => ~get_cell_is_traversable(grid, ToInt(i.left) - 1, checked)
          /\ (\E k \in flat : called.retval.nodes[k].interval.left >= i.right)
             => ~get_cell_is_traversable(grid, ToInt(i.right), checked)

\* C30: for every finite grid and every valid start/target pair,
\* search_costonly terminates: a call whose loop has begun ends only with a
\* goal node dequeued or with the open list empty.
C30_EndsWithGoalOrEmptyOpen ==
    (pc \in {"returned", "raised"} /\ generated > 0)
    => (path_found \/ is_empty(open))

=============================================================================
